---------------------------- MODULE Spec2Model ----------------------------
(***************************************************************************)
(* Scoped Probabilistic Learning Kernel (IBLM): ScopedKernel,              *)
(* ScopedCompiler, the legacy UserKernel / IBLM facade.                    *)
(*                                                                         *)
(* Conventions                                                             *)
(*  - confidences and weights are Python floats in [0, 1]; they are kept   *)
(*    here in hundredths (0.15 is 15).  Binary rounding of the floats is   *)
(*    not represented.                                                     *)
(*  - dict-valued kernel maps keep Python's insertion order, so they are   *)
(*    sequences of records carrying their key.                             *)
(*  - uuid4 identifiers are drawn from a counter (always fresh).           *)
(*  - datetime.now() is the clock `now`, in hours.                         *)
(*  - text is kept as the strings themselves; what the code computes from  *)
(*    a text (substring tests, embeddings, lower/strip) is tabulated for   *)
(*    the texts used, from the code's own functions.                       *)
(***************************************************************************)
EXTENDS Integers, Sequences, FiniteSets, TLC

(***************************************************************************)
(* Bounds of the model                                                     *)
(***************************************************************************)
MaxCalls == 4
MaxTicks == 1
max_rules == 3
max_context_nodes == 2
max_hypotheses == 3

(***************************************************************************)
(* Texts and what the code computes from them                              *)
(***************************************************************************)
T_UseTS == "Use TypeScript"
T_NeverTS == "never use TypeScript"
T_Async == "I prefer async/await in Python"
T_Async2 == "I prefer Python async/await"
T_AsyncFA == "I prefer async/await in Python FastAPI"
T_NotFA == "not async/await in Python FastAPI"
T_Tabs == "Use tabs"
T_Promises == "I prefer promises in JavaScript"
T_AsyncLower == "i prefer async/await in python "
Q_Python == "Write a Python function"
Q_FastAPI == "Write a FastAPI endpoint in Python"
Q_Hello == "hello"

Contents ==
  {T_UseTS, T_NeverTS, T_Async, T_Async2, T_AsyncFA, T_NotFA, T_Tabs, T_Promises,
   T_AsyncLower}

\* the contents InteractionObserver gives the signals it extracts
O_TypeScript == "TypeScript"
O_Concise == "style:concise"
O_ConciseQuestions == "style:concise_questions"
O_Notebooks == "Prefer: notebooks"

ObservedContents == {O_TypeScript, O_Concise, O_ConciseQuestions, O_Notebooks}

AllContents == Contents \cup ObservedContents

\* `keyword in content` for content = signal.content.lower(): the keywords of
\* the three tables that occur as substrings of each text.
KeywordsIn(c) ==
  CASE c = T_UseTS    -> {"typescript"}
    [] c = T_NeverTS  -> {"typescript"}
    [] c = T_Async    -> {"python"}
    [] c = T_Async2   -> {"python"}
    [] c = T_AsyncFA  -> {"python", "fastapi", "api"}
    [] c = T_NotFA    -> {"python", "fastapi", "api"}
    [] c = T_Tabs     -> {}
    [] c = T_Promises -> {"javascript", "java"}
    [] c = T_AsyncLower -> {"python"}
    [] c = Q_Python   -> {"python"}
    [] c = Q_FastAPI  -> {"python", "fastapi", "api"}
    [] c = Q_Hello    -> {}
    [] c = O_TypeScript -> {"typescript"}
    [] OTHER          -> {}

\* `neg in signal.content.lower()` for the negation words of
\* _signal_contradicts_hypothesis.
negations == {"don't", "not", "never", "stop", "instead"}

NegationsIn(c) ==
  CASE c = T_NeverTS -> {"never"}
    [] c = T_NotFA   -> {"not"}
    [] c = O_Notebooks -> {"not"}
    [] OTHER         -> {}

\* EmbeddingEngine.cosine_similarity(embed(a), embed(b)) in thousandths, for
\* the hash embedding (_hash_embed) of the texts above.
CosineRow(a) ==
  CASE a = T_UseTS    -> [x \in Contents |->
         CASE x = T_UseTS -> 1000 [] x = T_NeverTS -> 640 [] x = T_Async -> 187
           [] x = T_Async2 -> 187 [] x = T_AsyncFA -> 194 [] x = T_NotFA -> -16
           [] x = T_Tabs -> 582 [] x = T_Promises -> -255
           [] x = T_AsyncLower -> 187]
    [] a = T_NeverTS  -> [x \in Contents |->
         CASE x = T_UseTS -> 640 [] x = T_NeverTS -> 1000 [] x = T_Async -> 132
           [] x = T_Async2 -> 132 [] x = T_AsyncFA -> 191 [] x = T_NotFA -> -40
           [] x = T_Tabs -> 470 [] x = T_Promises -> -473
           [] x = T_AsyncLower -> 132]
    [] a = T_Async    -> [x \in Contents |->
         CASE x = T_UseTS -> 187 [] x = T_NeverTS -> 132 [] x = T_Async -> 1000
           [] x = T_Async2 -> 1000 [] x = T_AsyncFA -> 966 [] x = T_NotFA -> 823
           [] x = T_Tabs -> -26 [] x = T_Promises -> 174
           [] x = T_AsyncLower -> 1000]
    [] a = T_Async2   -> [x \in Contents |->
         CASE x = T_UseTS -> 187 [] x = T_NeverTS -> 132 [] x = T_Async -> 1000
           [] x = T_Async2 -> 1000 [] x = T_AsyncFA -> 966 [] x = T_NotFA -> 823
           [] x = T_Tabs -> -26 [] x = T_Promises -> 174
           [] x = T_AsyncLower -> 1000]
    [] a = T_AsyncFA  -> [x \in Contents |->
         CASE x = T_UseTS -> 194 [] x = T_NeverTS -> 191 [] x = T_Async -> 966
           [] x = T_Async2 -> 966 [] x = T_AsyncFA -> 1000 [] x = T_NotFA -> 867
           [] x = T_Tabs -> -60 [] x = T_Promises -> 189
           [] x = T_AsyncLower -> 966]
    [] a = T_NotFA    -> [x \in Contents |->
         CASE x = T_UseTS -> -16 [] x = T_NeverTS -> -40 [] x = T_Async -> 823
           [] x = T_Async2 -> 823 [] x = T_AsyncFA -> 867 [] x = T_NotFA -> 1000
           [] x = T_Tabs -> -269 [] x = T_Promises -> 313
           [] x = T_AsyncLower -> 823]
    [] a = T_Tabs     -> [x \in Contents |->
         CASE x = T_UseTS -> 582 [] x = T_NeverTS -> 470 [] x = T_Async -> -26
           [] x = T_Async2 -> -26 [] x = T_AsyncFA -> -60 [] x = T_NotFA -> -269
           [] x = T_Tabs -> 1000 [] x = T_Promises -> -422
           [] x = T_AsyncLower -> -26]
    [] a = T_Promises -> [x \in Contents |->
         CASE x = T_UseTS -> -255 [] x = T_NeverTS -> -473 [] x = T_Async -> 174
           [] x = T_Async2 -> 174 [] x = T_AsyncFA -> 189 [] x = T_NotFA -> 313
           [] x = T_Tabs -> -422 [] x = T_Promises -> 1000
           [] x = T_AsyncLower -> 174]
    [] a = T_AsyncLower    -> [x \in Contents |->
         CASE x = T_UseTS -> 187 [] x = T_NeverTS -> 132 [] x = T_Async -> 1000
           [] x = T_Async2 -> 1000 [] x = T_AsyncFA -> 966 [] x = T_NotFA -> 823
           [] x = T_Tabs -> -26 [] x = T_Promises -> 174
           [] x = T_AsyncLower -> 1000]

\* the same for the contents InteractionObserver gives its signals, against
\* every text above and each other
ObservedCosineRow(a) ==
  CASE a = O_TypeScript -> [x \in AllContents |->
         CASE x = T_UseTS -> 704 [] x = T_NeverTS -> 460 [] x = T_Async -> 249
           [] x = T_Async2 -> 249 [] x = T_AsyncFA -> 344
           [] x = T_NotFA -> 277 [] x = T_Tabs -> 110 [] x = T_Promises -> -89
           [] x = T_AsyncLower -> 249 [] x = O_TypeScript -> 1000
           [] x = O_Concise -> -147 [] x = O_ConciseQuestions -> 141
           [] x = O_Notebooks -> 547]
    [] a = O_Concise -> [x \in AllContents |->
         CASE x = T_UseTS -> 64 [] x = T_NeverTS -> -275
           [] x = T_Async -> -176 [] x = T_Async2 -> -176
           [] x = T_AsyncFA -> -319 [] x = T_NotFA -> -232
           [] x = T_Tabs -> 360 [] x = T_Promises -> -235
           [] x = T_AsyncLower -> -176 [] x = O_TypeScript -> -147
           [] x = O_Concise -> 1000 [] x = O_ConciseQuestions -> 697
           [] x = O_Notebooks -> -107]
    [] a = O_ConciseQuestions -> [x \in AllContents |->
         CASE x = T_UseTS -> 341 [] x = T_NeverTS -> 81 [] x = T_Async -> -106
           [] x = T_Async2 -> -106 [] x = T_AsyncFA -> -241
           [] x = T_NotFA -> -292 [] x = T_Tabs -> 350
           [] x = T_Promises -> -226 [] x = T_AsyncLower -> -106
           [] x = O_TypeScript -> 141 [] x = O_Concise -> 697
           [] x = O_ConciseQuestions -> 1000 [] x = O_Notebooks -> 141]
    [] a = O_Notebooks -> [x \in AllContents |->
         CASE x = T_UseTS -> 299 [] x = T_NeverTS -> 158 [] x = T_Async -> 508
           [] x = T_Async2 -> 508 [] x = T_AsyncFA -> 482
           [] x = T_NotFA -> 223 [] x = T_Tabs -> -46 [] x = T_Promises -> -56
           [] x = T_AsyncLower -> 508 [] x = O_TypeScript -> 547
           [] x = O_Concise -> -107 [] x = O_ConciseQuestions -> 141
           [] x = O_Notebooks -> 1000]

cosine_similarity(a, b) ==
  IF a \in Contents /\ b \in Contents THEN CosineRow(a)[b]
  ELSE IF a \in ObservedContents THEN ObservedCosineRow(a)[b]
  ELSE ObservedCosineRow(b)[a]


\* str.lower() on the scope names and context elements used
Lower(s) ==
  CASE s = "Python" -> "python"
    [] s = "PYTHON" -> "python"
    [] s = "JavaScript" -> "javascript"
    [] s = "TypeScript" -> "typescript"
    [] s = "FastAPI" -> "fastapi"
    [] s = "API" -> "api"
    [] s = "Global" -> "global"
    [] s = "Demo" -> "demo"
    [] s = "Write clean, maintainable code" -> "write clean, maintainable code"
    [] s = "User types fast" -> "user types fast"
    [] OTHER -> s

(***************************************************************************)
(* Enumerations (models.py)                                                *)
(***************************************************************************)
None == "None"
\* Optional[int] fields: None is kept as a value no identifier or time takes
NoId == 0
NoTime == -1

SignalType ==
  {"CORRECTION", "PREFERENCE", "STYLE", "ENTITY", "EXPERTISE", "AVERSION",
   "CONTEXT", "PERSONALITY", "GOAL", "WORKFLOW"}

RuleState == {"HYPOTHESIS", "SHADOW", "VALIDATING", "ESTABLISHED", "DEPRECATED"}

HypothesisState == {"PENDING", "VALIDATING", "PROMOTED", "REJECTED", "EXPIRED"}

(***************************************************************************)
(* ScopedCompiler: keyword tables and scope detection                      *)
(* each entry: <<keyword, scope name, target node id>>                     *)
(***************************************************************************)
LANGUAGE_KEYWORDS ==
  << <<"python", "Python", "lang_python">>,
     <<"javascript", "JavaScript", "lang_javascript">>,
     <<"typescript", "TypeScript", "lang_typescript">>,
     <<"java", "Java", "lang_java">>,
     <<"rust", "Rust", "lang_rust">>,
     <<"go", "Go", "lang_go">>,
     <<"golang", "Go", "lang_go">>,
     <<"ruby", "Ruby", "lang_ruby">>,
     <<"php", "PHP", "lang_php">>,
     <<"swift", "Swift", "lang_swift">>,
     <<"kotlin", "Kotlin", "lang_kotlin">>,
     <<"c++", "C++", "lang_c++">>,
     <<"cpp", "C++", "lang_c++">>,
     <<"c#", "C#", "lang_c#">>,
     <<"csharp", "C#", "lang_c#">> >>

FRAMEWORK_KEYWORDS ==
  << <<"fastapi", "FastAPI", "fw_fastapi">>,
     <<"django", "Django", "fw_django">>,
     <<"flask", "Flask", "fw_flask">>,
     <<"react", "React", "fw_react">>,
     <<"vue", "Vue", "fw_vue">>,
     <<"angular", "Angular", "fw_angular">>,
     <<"express", "Express", "fw_express">>,
     <<"nextjs", "Next.js", "fw_nextjs">>,
     <<"next.js", "Next.js", "fw_nextjs">>,
     <<"spring", "Spring", "fw_spring">>,
     <<"rails", "Rails", "fw_rails">> >>

DOMAIN_KEYWORDS ==
  << <<"backend", "Backend", "domain_backend">>,
     <<"frontend", "Frontend", "domain_frontend">>,
     <<"fullstack", "Fullstack", "domain_fullstack">>,
     <<"api", "API", "domain_api">>,
     <<"database", "Database", "domain_database">>,
     <<"ml", "Machine Learning", "domain_machine learning">>,
     <<"devops", "DevOps", "domain_devops">>,
     <<"mobile", "Mobile", "domain_mobile">>,
     <<"web", "Web", "domain_web">> >>

\* the `for keyword, name in TABLE.items(): if keyword in content: ... break`
\* loop: index of the first entry whose keyword occurs in the content, 0 if none
FirstKeyword(table, content) ==
  LET hits == {i \in 1..Len(table) : table[i][1] \in KeywordsIn(content)}
  IN  IF hits = {} THEN 0 ELSE CHOOSE i \in hits : \A j \in hits : i <= j

\* f"project_{project.lower().replace(' ', '_')}"
ProjectNodeId(project) ==
  CASE project = "Demo" -> "project_demo"
    [] OTHER -> "project_other"

_detect_scope(signal) ==
  LET lang == FirstKeyword(LANGUAGE_KEYWORDS, signal.content)
      fw   == FirstKeyword(FRAMEWORK_KEYWORDS, signal.content)
      dom  == FirstKeyword(DOMAIN_KEYWORDS, signal.content)
      p1 == IF lang # 0 THEN <<LANGUAGE_KEYWORDS[lang][2]>> ELSE <<>>
      t1 == IF lang # 0 THEN LANGUAGE_KEYWORDS[lang][3] ELSE None
      p2 == IF fw # 0 THEN Append(p1, FRAMEWORK_KEYWORDS[fw][2]) ELSE p1
      t2 == IF fw # 0 THEN FRAMEWORK_KEYWORDS[fw][3] ELSE t1
      p3 == IF dom # 0 THEN Append(p2, DOMAIN_KEYWORDS[dom][2]) ELSE p2
      t3 == IF dom # 0 /\ t2 = None THEN DOMAIN_KEYWORDS[dom][3] ELSE t2
      p4 == IF signal.project # None THEN Append(p3, signal.project) ELSE p3
      t4 == IF signal.project # None THEN ProjectNodeId(signal.project) ELSE t3
  IN  IF t4 = None
        THEN [scope_path |-> <<"Global">>, target_node_id |-> "global"]
        ELSE [scope_path |-> p4, target_node_id |-> t4]

\* self._relation_map.get(signal.signal_type, default)
_relation_map(signal_type, default) ==
  CASE signal_type = "PREFERENCE" -> "PREFERS"
    [] signal_type = "AVERSION"   -> "AVOIDS"
    [] signal_type = "EXPERTISE"  -> "EXPERT_IN"
    [] signal_type = "CORRECTION" -> "PREFERS"
    [] signal_type = "WORKFLOW"   -> "USES"
    [] OTHER -> default

(***************************************************************************)
(* ScopedRule (models.py)                                                  *)
(***************************************************************************)
Min(a, b) == IF a <= b THEN a ELSE b
Max(a, b) == IF a >= b THEN a ELSE b

\* ScopedRule._update_state
_update_state(rule) ==
  [rule EXCEPT !.state =
     IF rule.confidence >= 80 THEN "ESTABLISHED"
     ELSE IF rule.confidence >= 60 THEN "VALIDATING"
     ELSE IF rule.confidence >= 40 THEN "SHADOW"
     ELSE IF rule.confidence < 20 THEN "DEPRECATED"
     ELSE "HYPOTHESIS"]

\* ScopedRule.validate(boost)
RuleValidate(rule, boost) ==
  _update_state([rule EXCEPT !.validation_count = @ + 1,
                             !.confidence = Min(100, @ + boost),
                             !.source_count = @ + 1])

\* ScopedRule.reject(penalty)
RuleReject(rule, penalty) ==
  _update_state([rule EXCEPT !.rejection_count = @ + 1,
                             !.confidence = Max(0, @ - penalty)])

\* ScopedRule.contradict(penalty = 0.15)
RuleContradict(rule) == RuleReject(rule, 15)

\* matches_context comparing the elements as written, without lower()
matches_context_as_written(scope_path, active_context) ==
  \/ scope_path = <<>>
  \/ \A i \in 1..Len(scope_path) :
        /\ i <= Len(active_context)
        /\ scope_path[i] = active_context[i]

\* ScopedRule.matches_context
matches_context(scope_path, active_context) ==
  \/ scope_path = <<>>
  \/ \A i \in 1..Len(scope_path) :
        /\ i <= Len(active_context)
        /\ Lower(scope_path[i]) = Lower(active_context[i])

\* the dataclass constructor ScopedRule(...): fields not passed keep their
\* defaults (confidence 0.2, state HYPOTHESIS, counts 0, weight 0.5,
\* source_count 1); there is no __post_init__, so state is not derived here.
ScopedRule(rule_id, content, scope_path, target_node, relation, confidence, weight, source_count, promoted_from) ==
  [rule_id |-> rule_id, content |-> content, scope_path |-> scope_path,
   target_node |-> target_node, relation |-> relation,
   confidence |-> confidence, state |-> "HYPOTHESIS",
   validation_count |-> 0, rejection_count |-> 0,
   weight |-> weight, source_count |-> source_count,
   promoted_from |-> promoted_from]

(***************************************************************************)
(* Hypothesis (models.py)                                                  *)
(***************************************************************************)
VALIDATION_THRESHOLD == 3
REJECTION_THRESHOLD == 2
INTERACTION_EXPIRY == 10
HypothesisLifetimeHours == 24

\* Hypothesis.validate with the promotion test one validation early
HypothesisValidate_early(h) ==
  LET h1 == [h EXCEPT !.validations = @ + 1,
                      !.confidence = Min(90, @ + 20),
                      !.state = "VALIDATING"]
  IN  IF h1.validations >= VALIDATION_THRESHOLD - 1
        THEN [h1 EXCEPT !.state = "PROMOTED"] ELSE h1

\* Hypothesis.validate: the updated hypothesis; promoted iff state = PROMOTED
HypothesisValidate(h) ==
  LET h1 == [h EXCEPT !.validations = @ + 1,
                      !.confidence = Min(90, @ + 20),
                      !.state = "VALIDATING"]
  IN  IF h1.validations >= VALIDATION_THRESHOLD
        THEN [h1 EXCEPT !.state = "PROMOTED"] ELSE h1

\* Hypothesis.reject with the deletion test one rejection early
HypothesisReject_early(h) ==
  LET h1 == [h EXCEPT !.rejections = @ + 1,
                      !.confidence = Max(0, @ - 30)]
  IN  IF h1.rejections >= REJECTION_THRESHOLD - 1
        THEN [h1 EXCEPT !.state = "REJECTED"] ELSE h1

\* Hypothesis.reject: the updated hypothesis; to delete iff state = REJECTED
HypothesisReject(h) ==
  LET h1 == [h EXCEPT !.rejections = @ + 1,
                      !.confidence = Max(0, @ - 30)]
  IN  IF h1.rejections >= REJECTION_THRESHOLD
        THEN [h1 EXCEPT !.state = "REJECTED"] ELSE h1

\* Hypothesis.check_expiry at clock t
check_expiry(h, t) ==
  \/ (h.expires_at # NoTime /\ t > h.expires_at)
  \/ h.validation_interactions >= INTERACTION_EXPIRY

\* Hypothesis.record_interaction
record_interaction(h) == [h EXCEPT !.validation_interactions = @ + 1]

\* Hypothesis.to_scoped_rule
to_scoped_rule(h, rule_id) ==
  ScopedRule(rule_id, h.proposed_content, h.proposed_scope_path,
             h.proposed_target_node, h.proposed_relation, 80, 70,
             h.validations, h.hypothesis_id)

(***************************************************************************)
(* Sequence helpers (dict operations on the insertion-ordered maps)        *)
(***************************************************************************)
RECURSIVE SeqFilterOut(_, _)
\* del d[k] for every position in `drop`
SeqFilterOut(seq, drop) ==
  IF seq = <<>> THEN <<>>
  ELSE LET n == Len(seq)
           rest == SeqFilterOut(SubSeq(seq, 1, n - 1), drop)
       IN  IF n \in drop THEN rest ELSE Append(rest, seq[n])

RuleIndex(rules, rule_id) ==
  IF \E i \in 1..Len(rules) : rules[i].rule_id = rule_id
    THEN CHOOSE i \in 1..Len(rules) : rules[i].rule_id = rule_id ELSE 0

HypIndex(hyps, hid) ==
  IF \E i \in 1..Len(hyps) : hyps[i].hypothesis_id = hid
    THEN CHOOSE i \in 1..Len(hyps) : hyps[i].hypothesis_id = hid ELSE 0

NodeIds(nodes) == {nodes[i].node_id : i \in 1..Len(nodes)}

\* Python evaluates a statement's result before the next statement reads it:
\* Only({body : x \in {e}}) is `x = e; body`, with e evaluated once.
Only(S) == CHOOSE x \in S : TRUE

\* A Python list built by a comprehension: the function over 1..n as a tuple.
AsSeq(f) == SubSeq(f, 1, Len(f))

(***************************************************************************)
(* ScopedCompiler.evolve_scoped and its helpers, as functions of the       *)
(* kernel state K = [scoped_rules, hypotheses, context_nodes, archive,     *)
(* uuid, report] (uuid: the next fresh identifier; archive: cold storage)  *)
(***************************************************************************)
ScopedEvolutionReport ==
  [hypotheses_created |-> 0, hypotheses_validated |-> 0,
   hypotheses_rejected |-> 0, hypotheses_expired |-> 0,
   rules_promoted |-> 0, rules_updated |-> 0, rules_contradicted |-> 0,
   context_nodes_created |-> 0, context_nodes_updated |-> 0,
   signals_processed |-> 0, interactions_archived |-> 0]

\* node_id.startswith("lang_") ... : the context type given to a node id
ContextTypeOf(node_id) ==
  IF \E i \in 1..Len(LANGUAGE_KEYWORDS) : LANGUAGE_KEYWORDS[i][3] = node_id
    THEN "LANGUAGE"
  ELSE IF \E i \in 1..Len(FRAMEWORK_KEYWORDS) : FRAMEWORK_KEYWORDS[i][3] = node_id
    THEN "FRAMEWORK"
  ELSE IF \E i \in 1..Len(DOMAIN_KEYWORDS) : DOMAIN_KEYWORDS[i][3] = node_id
    THEN "DOMAIN"
  ELSE IF node_id = "project_demo" \/ node_id = "project_other"
    THEN "PROJECT"
  ELSE "TECHNOLOGY"

\* ScopedCompiler._create_context_node: writes kernel.context_nodes directly
_create_context_node(K, node_id, scope_path) ==
  LET ctx_type == ContextTypeOf(node_id)
      name == IF ctx_type = "TECHNOLOGY" THEN node_id
              ELSE IF scope_path # <<>> THEN scope_path[Len(scope_path)]
              ELSE node_id
      node == [node_id |-> node_id, context_type |-> ctx_type, name |-> name,
               parent_id |-> None, children_ids |-> <<>>,
               weight |-> 50, reference_count |-> 0]
  IN  [K EXCEPT !.context_nodes = Append(@, node)]

\* ScopedCompiler._find_matching_hypotheses: ids, in dict order
_find_matching_hypotheses(K, signal) ==
  LET hs == K.hypotheses
      keep == {i \in 1..Len(hs) :
                 /\ hs[i].state \in {"PENDING", "VALIDATING"}
                 /\ cosine_similarity(signal.content, hs[i].proposed_content) > 600}
      kept == SeqFilterOut(hs, (1..Len(hs)) \ keep)
  IN  AsSeq([i \in 1..Len(kept) |-> kept[i].hypothesis_id])

_signal_validates_hypothesis(signal, h) ==
  /\ signal.signal_type \in {"PREFERENCE", "WORKFLOW"}
  /\ cosine_similarity(signal.content, h.proposed_content) > 700

_signal_contradicts_hypothesis(signal, h) ==
  /\ signal.signal_type = "CORRECTION"
  /\ cosine_similarity(signal.content, h.proposed_content) > 500
  /\ NegationsIn(signal.content) \cap negations # {}

\* ScopedCompiler._archive_and_delete_hypothesis
_archive_and_delete_hypothesis(K, h, reason) ==
  LET i == HypIndex(K.hypotheses, h.hypothesis_id)
  IN  [K EXCEPT !.archive = Append(@, [entry_type |-> "hypothesis",
                                       id |-> h.hypothesis_id,
                                       reason |-> reason,
                                       validations |-> h.validations]),
                !.hypotheses = IF i = 0 THEN @ ELSE SeqFilterOut(@, {i})]

\* _promote_hypothesis that archives and deletes without storing the rule
_promote_hypothesis_dropping(K, h) ==
  _archive_and_delete_hypothesis(K, h, "promoted")

\* ScopedCompiler._promote_hypothesis: writes kernel.scoped_rules directly
_promote_hypothesis(K, h) ==
  LET rule == to_scoped_rule(h, K.uuid)
      K1 == [K EXCEPT !.scoped_rules = Append(@, rule), !.uuid = @ + 1]
  IN  _archive_and_delete_hypothesis(K1, h, "promoted")

\* `if hypothesis.validate(): promote ... else: report.hypotheses_validated += 1`
ValidateMatch(K, i, hv) ==
  IF hv.state = "PROMOTED"
    THEN [_promote_hypothesis([K EXCEPT !.hypotheses[i] = hv], hv)
            EXCEPT !.report.rules_promoted = @ + 1]
    ELSE [K EXCEPT !.hypotheses[i] = hv, !.report.hypotheses_validated = @ + 1]

\* `if hypothesis.reject(): archive and delete; report.hypotheses_rejected += 1`
RejectMatch(K, i, hr) ==
  IF hr.state = "REJECTED"
    THEN [_archive_and_delete_hypothesis([K EXCEPT !.hypotheses[i] = hr], hr, "rejected")
            EXCEPT !.report.hypotheses_rejected = @ + 1]
    ELSE [K EXCEPT !.hypotheses[i] = hr]

\* body of `for hypothesis in matching_hypotheses` for the hypothesis hid
ProcessMatch(K, signal, hid) ==
  Only({IF _signal_validates_hypothesis(signal, h)
          THEN Only({ValidateMatch(K, HypIndex(K.hypotheses, hid), hv) :
                       hv \in {HypothesisValidate(h)}})
        ELSE IF _signal_contradicts_hypothesis(signal, h)
          THEN Only({RejectMatch(K, HypIndex(K.hypotheses, hid), hr) :
                       hr \in {HypothesisReject(h)}})
        ELSE K :
        h \in {K.hypotheses[HypIndex(K.hypotheses, hid)]}})

RECURSIVE ProcessMatches(_, _, _)
ProcessMatches(K, signal, hids) ==
  IF hids = <<>> THEN K
  ELSE Only({ProcessMatches(K1, signal, Tail(hids)) :
               K1 \in {ProcessMatch(K, signal, Head(hids))}})

\* ScopedCompiler._contradict_scoped_rules
_contradict_scoped_rules(K, signal, scope_path) ==
  LET rs == K.scoped_rules
      hit == {i \in 1..Len(rs) :
                /\ matches_context(rs[i].scope_path, scope_path)
                /\ cosine_similarity(signal.content, rs[i].content) > 600}
  IN  [K EXCEPT !.scoped_rules =
                   AsSeq([i \in 1..Len(rs) |-> IF i \in hit THEN RuleContradict(rs[i]) ELSE rs[i]]),
                !.report.rules_contradicted = @ + Cardinality(hit)]

\* ScopedCompiler._create_hypothesis at clock t; Optional[Hypothesis] is a
\* sequence of length 0 (None) or 1
_create_hypothesis(signal, scope_path, target_node_id, hid, t) ==
  IF signal.confidence < 30 THEN <<>>
  ELSE <<[hypothesis_id |-> hid,
        proposed_content |-> signal.content,
        proposed_scope_path |-> scope_path,
        proposed_relation |-> _relation_map(signal.signal_type, "USES"),
        proposed_target_node |-> target_node_id,
        confidence |-> 10, validations |-> 0, rejections |-> 0,
        state |-> "PENDING", created_at |-> t,
        expires_at |-> t + HypothesisLifetimeHours,
        validation_interactions |-> 0,
        source_signal_type |-> signal.signal_type]>>

\* evolve_scoped, Step 4: create the hypothesis and store it
StoreNewHypothesis(K, signal, scope, t) ==
  LET h == _create_hypothesis(signal, scope.scope_path, scope.target_node_id, K.uuid, t)
  IN  IF h = <<>> THEN K
      ELSE [K EXCEPT !.hypotheses = Append(@, h[1]), !.uuid = @ + 1,
                     !.report.hypotheses_created = @ + 1]

\* evolve_scoped: "Ensure context node exists"
EnsureContextNode(K, scope) ==
  IF scope.target_node_id \notin NodeIds(K.context_nodes)
    THEN [_create_context_node(K, scope.target_node_id, scope.scope_path)
            EXCEPT !.report.context_nodes_created = @ + 1]
    ELSE K

\* evolve_scoped, Step 2
ValidateOrContradict(K, signal) ==
  Only({ProcessMatches(K, signal, hids) :
          hids \in {_find_matching_hypotheses(K, signal)}})

\* evolve_scoped, Step 3
ContradictRules(K, signal, scope) ==
  IF signal.signal_type = "CORRECTION"
    THEN _contradict_scoped_rules(K, signal, scope.scope_path)
    ELSE K

\* body of `for signal in signals` in evolve_scoped
ProcessSignal(K, signal, t) ==
  Only({Only({Only({Only({StoreNewHypothesis(K3, signal, scope, t) :
      K3 \in {ContradictRules(K2, signal, scope)}}) :
      K2 \in {ValidateOrContradict(K1, signal)}}) :
      K1 \in {EnsureContextNode(K, scope)}}) :
      scope \in {_detect_scope(signal)}})

RECURSIVE ProcessSignals(_, _, _)
ProcessSignals(K, signals, t) ==
  IF signals = <<>> THEN K
  ELSE Only({ProcessSignals(K1, Tail(signals), t) :
               K1 \in {ProcessSignal(K, Head(signals), t)}})

RECURSIVE ArchiveExpired(_, _)
\* second loop of _check_expired_hypotheses
ArchiveExpired(K, hs) ==
  IF hs = <<>> THEN K
  ELSE Only({ArchiveExpired(K1, Tail(hs)) :
               K1 \in {[_archive_and_delete_hypothesis(
                          K, [Head(hs) EXCEPT !.state = "EXPIRED"], "expired")
                          EXCEPT !.report.hypotheses_expired = @ + 1]}})

\* ScopedCompiler._check_expired_hypotheses
_check_expired_hypotheses(K, t) ==
  Only({ArchiveExpired(K, expired) :
          expired \in {SeqFilterOut(K.hypotheses,
                         {i \in 1..Len(K.hypotheses) : ~check_expiry(K.hypotheses[i], t)})}})

\* evolve_scoped, Step 6
RecordInteractions(K) ==
  [K EXCEPT !.hypotheses = AsSeq([i \in 1..Len(@) |-> record_interaction(@[i])])]

\* ScopedCompiler.evolve_scoped(signals) at clock t; the report is K.report
evolve_scoped(K, signals, t) ==
  IF signals = <<>> THEN [K EXCEPT !.report = ScopedEvolutionReport]
  ELSE Only({Only({RecordInteractions(K2) :
         K2 \in {_check_expired_hypotheses(K1, t)}}) :
         K1 \in {ProcessSignals(
                   [K EXCEPT !.report = [ScopedEvolutionReport EXCEPT
                                           !.signals_processed = Len(signals)]],
                   signals, t)}})

\* ScopedCompiler.force_scoped_rule (weight defaults to 0.9)
force_scoped_rule(K, content, scope_path, target_node_id) ==
  LET rule == ScopedRule(K.uuid, content, scope_path, target_node_id,
                         "PREFERS", 90, 90, 1, NoId)
  IN  [K EXCEPT !.scoped_rules = Append(@, rule), !.uuid = @ + 1]

(***************************************************************************)
(* ScopedCompiler.scientific_evolve (compiler.py)                          *)
(***************************************************************************)
\* str.lower().strip() of the texts
LowerStrip(c) ==
  CASE c = T_UseTS    -> "use typescript"
    [] c = T_NeverTS  -> "never use typescript"
    [] c = T_Async    -> "i prefer async/await in python"
    [] c = T_Async2   -> "i prefer python async/await"
    [] c = T_AsyncFA  -> "i prefer async/await in python fastapi"
    [] c = T_NotFA    -> "not async/await in python fastapi"
    [] c = T_Tabs     -> "use tabs"
    [] c = T_Promises -> "i prefer promises in javascript"
    [] c = T_AsyncLower -> "i prefer async/await in python"
    [] OTHER          -> c

\* the stats dict scientific_evolve starts from
NoStats ==
  [signals_processed |-> 0, rules_created |-> 0, rules_validated |-> 0,
   rules_rejected |-> 0, rules_established |-> 0, rules_deprecated |-> 0,
   collaboration_requests |-> <<>>]

\* ScopedCompiler._find_rule_in_scope: the index of the first rule with this
\* exact scope_path whose embedding is similar to the content's, 0 for None
\* (every rule the compiler creates has an embedding, that of its content)
_find_rule_in_scope(rules, content, scope_path) ==
  LET hits == {i \in 1..Len(rules) :
                 /\ rules[i].scope_path = scope_path
                 /\ cosine_similarity(content, rules[i].content) > 750}
  IN  IF hits = {} THEN 0 ELSE CHOOSE i \in hits : \A j \in hits : i <= j

\* the Socratic check asking for a VALIDATING rule instead of an ESTABLISHED one
is_conflict_validating(existing_rule, signal) ==
  /\ existing_rule.state = "VALIDATING"
  /\ LowerStrip(existing_rule.content) # LowerStrip(signal.content)
  /\ signal.signal_type # "CORRECTION"
  /\ signal.signal_type # "AVERSION"

\* the Socratic check of scientific_evolve
is_conflict(existing_rule, signal) ==
  /\ existing_rule.state = "ESTABLISHED"
  /\ LowerStrip(existing_rule.content) # LowerStrip(signal.content)
  /\ signal.signal_type # "CORRECTION"
  /\ signal.signal_type # "AVERSION"

\* the CollaborationRequest(...) built by scientific_evolve; the rule it
\* refers to is kept as it is at that moment
CollaborationRequest(request_id, signal, existing_rule) ==
  [request_id |-> request_id, trigger_signal |-> signal,
   conflicting_rule |-> existing_rule,
   proposed_options |-> << <<"Replace with: ", signal.content>>,
                           <<"Keep existing: ", existing_rule.content>>,
                           <<"Create context exception">> >>]

\* `if existing_rule:` branch of the loop body, i the rule's index
ScientificExisting(K, signal, i) ==
  LET existing_rule == K.scoped_rules[i] IN
  IF is_conflict(existing_rule, signal)
    THEN [K EXCEPT !.report.collaboration_requests =
                     Append(@, CollaborationRequest(K.uuid, signal, existing_rule)),
                   !.uuid = @ + 1]
  ELSE IF signal.signal_type = "CORRECTION"
    THEN Only({[K EXCEPT !.scoped_rules[i] = r,
                         !.report.rules_rejected = @ + 1,
                         !.report.rules_deprecated =
                            IF r.state = "DEPRECATED" THEN @ + 1 ELSE @] :
                 r \in {RuleReject(existing_rule, 25)}})
  ELSE Only({[K EXCEPT !.scoped_rules[i] = r,
                       !.report.rules_validated = @ + 1,
                       !.report.rules_established =
                          IF existing_rule.state # "ESTABLISHED" /\ r.state = "ESTABLISHED"
                            THEN @ + 1 ELSE @] :
               r \in {RuleValidate(existing_rule, 15)}})

\* `else:` branch of the loop body: a new rule of confidence 0.2
ScientificNew(K, signal, scope) ==
  [K EXCEPT !.scoped_rules =
              Append(@, ScopedRule(K.uuid, signal.content, scope.scope_path,
                                   scope.target_node_id,
                                   _relation_map(signal.signal_type, "PREFERS"),
                                   20, 50, 1, NoId)),
            !.uuid = @ + 1,
            !.report.rules_created = @ + 1]

\* the body of `for signal in signals:`
ScientificSignal(K, signal) ==
  Only({Only({IF i # 0 THEN ScientificExisting(K, signal, i)
                       ELSE ScientificNew(K, signal, scope) :
                i \in {_find_rule_in_scope(K.scoped_rules, signal.content,
                                           scope.scope_path)}}) :
          scope \in {_detect_scope(signal)}})

RECURSIVE ScientificSignals(_, _)
ScientificSignals(K, signals) ==
  IF signals = <<>> THEN K
  ELSE ScientificSignals(ScientificSignal(K, Head(signals)), Tail(signals))

\* ScopedCompiler.scientific_evolve(signals); the stats are K.report
scientific_evolve(K, signals) ==
  IF signals = <<>> THEN [K EXCEPT !.report = NoStats]
  ELSE ScientificSignals(
         [K EXCEPT !.report = [NoStats EXCEPT !.signals_processed = Len(signals)]],
         signals)

(***************************************************************************)
(* ScopedKernel: rule storage and query (kernel.py)                        *)
(***************************************************************************)
\* the sort key weight * confidence (in 1/10000)
Score(rule) == rule.weight * rule.confidence

\* list.sort(key = score, reverse = True) keeps equal keys in their order:
\* x goes behind every element whose score is at least its own
InsertDescending(sorted, x) ==
  Only({SubSeq(sorted, 1, k) \o <<x>> \o SubSeq(sorted, k + 1, Len(sorted)) :
          k \in {Cardinality({i \in 1..Len(sorted) : Score(sorted[i]) >= Score(x)})}})

RECURSIVE SortDescending(_)
SortDescending(seq) ==
  IF seq = <<>> THEN <<>>
  ELSE Only({InsertDescending(sorted, seq[Len(seq)]) :
               sorted \in {SortDescending(SubSeq(seq, 1, Len(seq) - 1))}})

\* sorted(values, key = score): ascending, equal keys in their order
InsertAscending(sorted, x) ==
  Only({SubSeq(sorted, 1, k) \o <<x>> \o SubSeq(sorted, k + 1, Len(sorted)) :
          k \in {Cardinality({i \in 1..Len(sorted) : Score(sorted[i]) <= Score(x)})}})

RECURSIVE SortAscending(_)
SortAscending(seq) ==
  IF seq = <<>> THEN <<>>
  ELSE Only({InsertAscending(sorted, seq[Len(seq)]) :
               sorted \in {SortAscending(SubSeq(seq, 1, Len(seq) - 1))}})

\* default of the parameter top_k of query_scoped_rules
top_k == 10

\* ScopedKernel.query_scoped_rules(active_context, query = None, top_k = k)
query_scoped_rules(rules, active_context, k) ==
  Only({SubSeq(sorted, 1, Min(k, Len(sorted))) :
          sorted \in {SortDescending(SeqFilterOut(rules,
             {i \in 1..Len(rules) :
                ~matches_context(rules[i].scope_path, active_context)}))}})

\* ScopedKernel._prune_scoped_rules on [scoped_rules, archive]
_prune_scoped_rules(R) ==
  IF Len(R.scoped_rules) < 10 THEN R
  ELSE Only({
         [scoped_rules |-> SeqFilterOut(R.scoped_rules,
            {i \in 1..Len(R.scoped_rules) :
               \E j \in 1..Len(pruned) : pruned[j].rule_id = R.scoped_rules[i].rule_id}),
          archive |-> R.archive \o
            AsSeq([j \in 1..Len(pruned) |->
               [entry_type |-> "rule", id |-> pruned[j].rule_id,
                reason |-> "pruned", validations |-> pruned[j].validation_count]])] :
         pruned \in {Only({SeqFilterOut(sorted,
                        {i \in 1..Len(sorted) :
                           i > Len(sorted) \div 10 \/ sorted[i].weight >= 30}) :
                      sorted \in {SortAscending(R.scoped_rules)}})}})

\* ScopedKernel.add_scoped_rule on [scoped_rules, archive]
add_scoped_rule(R, rule) ==
  Only({[R1 EXCEPT !.scoped_rules = Append(@, rule)] :
          R1 \in {IF Len(R.scoped_rules) >= max_rules
                    THEN _prune_scoped_rules(R) ELSE R}})

(***************************************************************************)
(* Goals and facts of the ScopedKernel, generate_system_prompt             *)
(* (kernel.py, injector.py)                                                *)
(***************************************************************************)
\* sorted(values, key = ..., reverse = True) on a list of <<key, value>>
\* pairs: equal keys keep their order
RECURSIVE SortKeyedDescending(_)
SortKeyedDescending(pairs) ==
  IF pairs = <<>> THEN <<>>
  ELSE Only({Only({SubSeq(sorted, 1, k) \o <<pairs[Len(pairs)]>>
                     \o SubSeq(sorted, k + 1, Len(sorted)) :
                     k \in {Cardinality({i \in 1..Len(sorted) :
                                           sorted[i][1] >= pairs[Len(pairs)][1]})}}) :
               sorted \in {SortKeyedDescending(SubSeq(pairs, 1, Len(pairs) - 1))}})

\* the values of a sorted list of <<key, value>> pairs
Values(pairs) == AsSeq([i \in 1..Len(pairs) |-> pairs[i][2]])

\* UserGoal.is_active: no goal of the model has an expiry, and
\* decay_priority() is max(1, ...)
is_active(goal) == goal.expiry = NoTime

\* ScopedKernel.get_active_goals(scope_path)
get_active_goals(goals, scope_path) ==
  LET active == SeqFilterOut(goals, {i \in 1..Len(goals) : ~is_active(goals[i])})
      inScope(g) ==
        \/ g.scope_path = <<>>
        \/ \E i \in 1..Len(g.scope_path) : \E j \in 1..Len(scope_path) :
              Lower(g.scope_path[i]) = Lower(scope_path[j])
      kept == IF scope_path # <<>>
                THEN SeqFilterOut(active, {i \in 1..Len(active) : ~inScope(active[i])})
                ELSE active
  IN  Values(SortKeyedDescending(
        AsSeq([i \in 1..Len(kept) |-> <<kept[i].priority, kept[i]>>])))

\* ScopedKernel.get_facts_not_conflicting(scope_path)
get_facts_not_conflicting(goals, facts, scope_path) ==
  LET active_goals == get_active_goals(goals, scope_path)
      goal_contents == {Lower(active_goals[i].content) : i \in 1..Len(active_goals)}
      valid_facts ==
        SeqFilterOut(facts, {i \in 1..Len(facts) : Lower(facts[i].content) \in goal_contents})
  IN  Values(SortKeyedDescending(
        AsSeq([i \in 1..Len(valid_facts) |-> <<valid_facts[i].confidence, valid_facts[i]>>])))

\* " > ".join(scope_path) if scope_path else "Global"
scope_str(scope_path) == IF scope_path = <<>> THEN <<"Global">> ELSE scope_path

\* xs[:4]
FirstFour(xs) == SubSeq(xs, 1, Min(4, Len(xs)))

\* xs[:5]
FirstFive(xs) == SubSeq(xs, 1, Min(5, Len(xs)))

\* the rules listed when the state of a rule is not looked at
established_rules_any_state(rules, scope_path) ==
  FirstFive(SortDescending(SeqFilterOut(rules,
    {i \in 1..Len(rules) :
       ~(rules[i].scope_path = <<>> \/ matches_context(rules[i].scope_path, scope_path))})))

\* the rules generate_system_prompt lists: the ESTABLISHED rules that are
\* global or match the scope detected for the query, sorted by
\* confidence * weight, the first five of them
established_rules(rules, scope_path) ==
  FirstFive(SortDescending(SeqFilterOut(rules,
    {i \in 1..Len(rules) :
       \/ rules[i].state # "ESTABLISHED"
       \/ ~(rules[i].scope_path = <<>> \/ matches_context(rules[i].scope_path, scope_path))})))

\* the line of the prompt for a rule
RuleLine(rule) == <<"- [", scope_str(rule.scope_path), "] ", rule.content>>

\* generate_system_prompt(kernel, user_query): the lines that are joined
generate_system_prompt(K, user_query) ==
  LET scope_path == _detect_scope([content |-> user_query, project |-> None]).scope_path
      listed == established_rules(K.scoped_rules, scope_path)
      gs == FirstFive(get_active_goals(K.goals, scope_path))
      fs == FirstFive(get_facts_not_conflicting(K.goals, K.facts, scope_path))
  IN  <<"# MISSION BRIEFING", "You are the user's Semantic Twin.", "">>
      \o (IF gs = <<>> THEN <<>>
          ELSE <<"## CORE DIRECTIVES (Laws - MUST FOLLOW)">>
               \o AsSeq([i \in 1..Len(gs) |->
                    <<"- [", scope_str(gs[i].scope_path), "] ", gs[i].content,
                      " (Priority: ", gs[i].priority, ")">>])
               \o <<"">>)
      \o (IF fs = <<>> THEN <<>>
          ELSE <<"## PREFERENCES (Follow unless conflicts with Laws)">>
               \o AsSeq([i \in 1..Len(fs) |->
                    <<"- [", scope_str(fs[i].scope_path), "] ", fs[i].content>>])
               \o <<"">>)
      \o (IF listed = <<>> THEN <<>>
          ELSE <<"## VERIFIED BEHAVIORS">>
               \o AsSeq([i \in 1..Len(listed) |-> RuleLine(listed[i])]))

(***************************************************************************)
(* Goal entropy and ScopedCompiler.adaptive_socratic                       *)
(***************************************************************************)
\* ScopedCompiler.SOCRATIC_THRESHOLD = 8.0, against priority * confidence
\* with the confidence in hundredths
SOCRATIC_THRESHOLD == 800

HoursPerDay == 24

RECURSIVE DecayFactor(_, _)
\* 0.5 ** (days_since / half_life_days) in millionths, rounded down, for
\* the half life of 7 days every goal has: the halvings are taken off first
DecayFactor(days_since, half_life_days) ==
  IF days_since >= half_life_days
    THEN DecayFactor(days_since - half_life_days, half_life_days) \div 2
  ELSE CASE days_since = 0 -> 1000000
         [] days_since = 1 -> 905723
         [] days_since = 2 -> 820335
         [] days_since = 3 -> 742997
         [] days_since = 4 -> 672950
         [] days_since = 5 -> 609506
         [] days_since = 6 -> 552044

\* UserGoal.decay_priority() at clock t (hours): max(1, int(priority * factor))
decay_priority(goal, t) ==
  LET days_since == (t - goal.last_reinforced) \div HoursPerDay
  IN  Max(1, (goal.priority * DecayFactor(days_since, goal.half_life_days))
               \div 1000000)

\* max([g.decay_priority() for g in goals], default=5)
max_goal_priority(goal_seq, t) ==
  IF goal_seq = <<>> THEN 5
  ELSE CHOOSE m \in {decay_priority(goal_seq[j], t) : j \in 1..Len(goal_seq)} :
         \A j \in 1..Len(goal_seq) : decay_priority(goal_seq[j], t) <= m

\* the CollaborationRequest(...) built by adaptive_socratic
AdaptiveRequest(request_id, signal, conflicting_rule, severity) ==
  [request_id |-> request_id, trigger_signal |-> signal,
   conflicting_rule |-> conflicting_rule,
   reason |-> <<"High-priority conflict (severity: ", severity, ")">>,
   proposed_options |-> << <<"Replace with: ", signal.content>>,
                           <<"Keep existing: ", conflicting_rule.content>>,
                           <<"Create exception for this context">> >>]

\* `if severity > self.SOCRATIC_THRESHOLD`
ask_user(severity) == severity > SOCRATIC_THRESHOLD

\* ScopedCompiler.adaptive_socratic(signal, conflicting_rule) at clock t, for
\* the rule at index i of the kernel: the kernel after the call and the
\* Optional[CollaborationRequest] returned (<<>> is None)
adaptive_socratic(K, signal, i, t) ==
  LET scope_path == _detect_scope(signal).scope_path
      considered == get_active_goals(K.goals, scope_path)
      severity == max_goal_priority(considered, t) * K.scoped_rules[i].confidence
  IN  IF ask_user(severity)
        THEN [K |-> [K EXCEPT !.uuid = @ + 1],
              result |-> <<AdaptiveRequest(K.uuid, signal, K.scoped_rules[i], severity)>>]
        ELSE [K |-> [K EXCEPT !.scoped_rules[i] = RuleReject(@, 5)],
              result |-> <<>>]

(***************************************************************************)
(* ScopedKernel.export / ScopedKernel.load and the to_dict / from_dict     *)
(* conversions they use                                                    *)
(***************************************************************************)
\* RuleState.value, and RuleState(value)
RuleStateValue(state) ==
  CASE state = "HYPOTHESIS"  -> "hypothesis"
    [] state = "SHADOW"      -> "shadow"
    [] state = "VALIDATING"  -> "validating"
    [] state = "ESTABLISHED" -> "established"
    [] state = "DEPRECATED"  -> "deprecated"

RuleStateOf(value) ==
  CHOOSE state \in RuleState : RuleStateValue(state) = value

\* datetime.isoformat() and datetime.fromisoformat()
isoformat(t) == <<"iso", t>>
fromisoformat(text) == text[2]

\* ScopedRule.to_dict
ScopedRule_to_dict(rule) ==
  [rule_id |-> rule.rule_id, content |-> rule.content,
   scope_path |-> rule.scope_path, target_node |-> rule.target_node,
   relation |-> rule.relation, confidence |-> rule.confidence,
   state |-> RuleStateValue(rule.state),
   validation_count |-> rule.validation_count,
   rejection_count |-> rule.rejection_count, weight |-> rule.weight,
   source_count |-> rule.source_count, promoted_from |-> rule.promoted_from]

\* ScopedRule.from_dict
ScopedRule_from_dict(data) ==
  [ScopedRule(data.rule_id, data.content, data.scope_path, data.target_node,
              data.relation, data.confidence, data.weight, data.source_count,
              data.promoted_from)
     EXCEPT !.validation_count = data.validation_count,
            !.rejection_count = data.rejection_count,
            !.state = RuleStateOf(data.state)]

\* Hypothesis.to_dict (a missing expires_at is written as null: <<>>)
Hypothesis_to_dict(h) ==
  [h EXCEPT !.created_at = isoformat(@),
            !.expires_at = IF @ # NoTime THEN isoformat(@) ELSE <<>>]

\* Hypothesis.from_dict
Hypothesis_from_dict(data) ==
  [data EXCEPT !.created_at = fromisoformat(@),
               !.expires_at = IF @ # <<>> THEN fromisoformat(@) ELSE NoTime]

\* ContextNode.to_dict and ContextNode.from_dict (the modelled fields are
\* copied one by one, the context type by its name)
ContextNode_to_dict(node) ==
  [node_id |-> node.node_id, context_type |-> node.context_type,
   name |-> node.name, parent_id |-> node.parent_id,
   children_ids |-> node.children_ids, weight |-> node.weight,
   reference_count |-> node.reference_count]

ContextNode_from_dict(data) ==
  [node_id |-> data.node_id, context_type |-> data.context_type,
   name |-> data.name, parent_id |-> data.parent_id,
   children_ids |-> data.children_ids, weight |-> data.weight,
   reference_count |-> data.reference_count]

\* ScopedKernel._metrics as __init__ sets it
NoMetrics ==
  [scoped_rules_added |-> 0, hypotheses_created |-> 0,
   hypotheses_promoted |-> 0, hypotheses_rejected |-> 0,
   context_nodes_created |-> 0]

\* ScopedKernel.export of the kernel S (a record of the kernel's fields).
\* "metrics" is the kernel's own _metrics dict, not a copy: metrics_live
\* says that the data still reads it from the kernel that exported it.
export(S) ==
  [version |-> "3.0.0",
   context_nodes |-> AsSeq([i \in 1..Len(S.context_nodes) |->
                        ContextNode_to_dict(S.context_nodes[i])]),
   scoped_rules |-> AsSeq([i \in 1..Len(S.scoped_rules) |->
                       ScopedRule_to_dict(S.scoped_rules[i])]),
   hypotheses |-> AsSeq([i \in 1..Len(S.hypotheses) |->
                     Hypothesis_to_dict(S.hypotheses[i])]),
   active_project |-> S.active_project,
   metrics |-> S._metrics,
   metrics_live |-> TRUE]

\* ScopedKernel.load(data): a new kernel (cls()) filled from the data
load(data) ==
  [context_nodes |-> AsSeq([i \in 1..Len(data.context_nodes) |->
                        ContextNode_from_dict(data.context_nodes[i])]),
   scoped_rules |-> AsSeq([i \in 1..Len(data.scoped_rules) |->
                       ScopedRule_from_dict(data.scoped_rules[i])]),
   hypotheses |-> AsSeq([i \in 1..Len(data.hypotheses) |->
                     Hypothesis_from_dict(data.hypotheses[i])]),
   goals |-> <<>>,
   facts |-> <<>>,
   active_project |-> data.active_project,
   _metrics |-> data.metrics]

(***************************************************************************)
(* State                                                                   *)
(***************************************************************************)
(* The legacy pipeline: IBLM facade, UserKernel, LogicCompiler             *)
(*  - Rule.weight and StyleVector values are kept in millionths,           *)
(*    confidences in hundredths, similarities in thousandths.              *)
(*  - The interactions used carry no ENTITY, EXPERTISE, AVERSION or GOAL   *)
(*    signal, so kernel.nodes stays empty and the profile changes only in  *)
(*    total_interactions and preferred_languages; of the style vector only *)
(*    the verbosity dimension moves.  Timestamps of the metadata, and the  *)
(*    observer's own _recent_signals, are not represented.                 *)
(***************************************************************************)
\* IBLMConfig.gc_threshold of the facade in use
gc_threshold == 2
MaxObserveCalls == 3
\* resource_limits of the UserKernel (defaults 1000 and 100)
max_interaction_logs == 2
max_pending_signals == 3

U_Hello == "hello"
\* "hel\x00lo": the same greeting with a null byte in it
U_HelloNul == "hel[NUL]lo"
U_Prefer == "I prefer TypeScript"
U_Notebooks == "No, use notebooks instead"

\* the (user_input, ai_output) pairs submitted
Interactions ==
  {<<U_Hello, "hi">>, <<U_HelloNul, "hi">>, <<U_Prefer, "ok">>,
   <<U_Notebooks, "sure">>}

\* InputValidator.validate_user_input(text, strict=False).sanitized_value:
\* truncation, html.escape and the injection filters leave these texts as
\* they are; the null byte is removed
sanitized_value(text) ==
  CASE text = U_HelloNul -> U_Hello
    [] OTHER -> text

\* IBLM._validate_input (enable_validation = True; a str is always valid)
_validate_input(text) == sanitized_value(text)

\* InteractionLog.content_hash: sha256(f"{user_input}|{ai_output}")[:16],
\* kept as the hashed text itself
content_hash(user_input, ai_output) == user_input \o "|" \o ai_output

ObservedSignal(signal_type, content, confidence, source_hash) ==
  [signal_type |-> signal_type, content |-> content,
   confidence |-> confidence, source_hash |-> source_hash]

\* InteractionObserver.observe(user_input, ai_output).signals for the
\* sanitized texts above
InteractionObserver_observe(user_input, ai_output) ==
  CASE user_input = U_Hello ->
         <<ObservedSignal("STYLE", "style:concise", 50,
                          content_hash(user_input, ai_output)),
           ObservedSignal("STYLE", "style:concise_questions", 40,
                          content_hash(user_input, ai_output))>>
    [] user_input = U_Prefer ->
         <<ObservedSignal("PREFERENCE", "TypeScript", 70,
                          content_hash(user_input, ai_output)),
           ObservedSignal("PREFERENCE", "TypeScript", 70,
                          content_hash(user_input, ai_output)),
           ObservedSignal("STYLE", "style:concise", 50,
                          content_hash(user_input, ai_output)),
           ObservedSignal("STYLE", "style:concise_questions", 40,
                          content_hash(user_input, ai_output))>>
    [] user_input = U_Notebooks ->
         <<ObservedSignal("CORRECTION", "Prefer: notebooks", 85,
                          content_hash(user_input, ai_output)),
           ObservedSignal("STYLE", "style:concise", 50,
                          content_hash(user_input, ai_output)),
           ObservedSignal("STYLE", "style:concise_questions", 40,
                          content_hash(user_input, ai_output))>>

\* any(neg in signal.content.lower() for neg in ['not', 'no', "don't",
\* 'stop', 'avoid', 'instead']): "prefer: notebooks" holds 'not' and 'no'
is_negation(content) == content = "Prefer: notebooks"

\* content.startswith(prefix)
startswith(content, prefix) ==
  content = "Prefer: notebooks" /\ prefix = "Prefer:"

\* content.replace("style:", "")
WithoutStylePrefix(content) ==
  CASE content = "style:concise" -> "concise"
    [] content = "style:concise_questions" -> "concise_questions"
    [] OTHER -> content

\* the languages of _update_profile found in content.lower(), in list order
LanguagesIn(content) ==
  IF content = "TypeScript" THEN <<"typescript">> ELSE <<>>

\* EmbeddingEngine.cosine_similarity of the hash embeddings of the texts the
\* legacy pipeline compares (signal contents and rule texts), in thousandths
LegacyTexts ==
  {"TypeScript",
   "style:concise",
   "style:concise_questions",
   "Prefer: notebooks",
   "When communicating Adopt: concise",
   "When communicating Adopt: concise_questions",
   "When communicating Follow: style:concise and related patterns",
   "When communicating Follow: style:concise_questions and related patterns",
   "When generating responses Follow: Prefer: notebooks and related patterns",
   "When generating responses Prefer: notebooks",
   "When making technical choices Prefer: TypeScript, TypeScript",
   "When making technical choices Prefer: TypeScript, TypeScript, TypeScript",
   "Always apply Always use TypeScript"}

LegacyCosineRow(a) ==
  CASE a = "TypeScript" -> [x \in LegacyTexts |->
         CASE x = "TypeScript" -> 1000 [] x = "style:concise" -> -147
           [] x = "style:concise_questions" -> 141
           [] x = "Prefer: notebooks" -> 547
           [] x = "When communicating Adopt: concise" -> -347
           [] x = "When communicating Adopt: concise_questions" -> -225
           [] x = "When communicating Follow: style:concise and related patterns" -> -222
           [] x = "When communicating Follow: style:concise_questions and related patterns" -> -131
           [] x = "When generating responses Follow: Prefer: notebooks and related patterns" -> 56
           [] x = "When generating responses Prefer: notebooks" -> 268
           [] x = "When making technical choices Prefer: TypeScript, TypeScript" -> 674
           [] x = "When making technical choices Prefer: TypeScript, TypeScript, TypeScript" -> 791
           [] x = "Always apply Always use TypeScript" -> -175]
    [] a = "style:concise" -> [x \in LegacyTexts |->
         CASE x = "TypeScript" -> -147 [] x = "style:concise" -> 1000
           [] x = "style:concise_questions" -> 697
           [] x = "Prefer: notebooks" -> -107
           [] x = "When communicating Adopt: concise" -> 705
           [] x = "When communicating Adopt: concise_questions" -> 461
           [] x = "When communicating Follow: style:concise and related patterns" -> 560
           [] x = "When communicating Follow: style:concise_questions and related patterns" -> 378
           [] x = "When generating responses Follow: Prefer: notebooks and related patterns" -> 157
           [] x = "When generating responses Prefer: notebooks" -> 63
           [] x = "When making technical choices Prefer: TypeScript, TypeScript" -> -177
           [] x = "When making technical choices Prefer: TypeScript, TypeScript, TypeScript" -> -181
           [] x = "Always apply Always use TypeScript" -> -211]
    [] a = "style:concise_questions" -> [x \in LegacyTexts |->
         CASE x = "TypeScript" -> 141 [] x = "style:concise" -> 697
           [] x = "style:concise_questions" -> 1000
           [] x = "Prefer: notebooks" -> 141
           [] x = "When communicating Adopt: concise" -> 388
           [] x = "When communicating Adopt: concise_questions" -> 494
           [] x = "When communicating Follow: style:concise and related patterns" -> 630
           [] x = "When communicating Follow: style:concise_questions and related patterns" -> 641
           [] x = "When generating responses Follow: Prefer: notebooks and related patterns" -> 458
           [] x = "When generating responses Prefer: notebooks" -> 326
           [] x = "When making technical choices Prefer: TypeScript, TypeScript" -> 56
           [] x = "When making technical choices Prefer: TypeScript, TypeScript, TypeScript" -> 79
           [] x = "Always apply Always use TypeScript" -> -146]
    [] a = "Prefer: notebooks" -> [x \in LegacyTexts |->
         CASE x = "TypeScript" -> 547 [] x = "style:concise" -> -107
           [] x = "style:concise_questions" -> 141
           [] x = "Prefer: notebooks" -> 1000
           [] x = "When communicating Adopt: concise" -> -334
           [] x = "When communicating Adopt: concise_questions" -> -242
           [] x = "When communicating Follow: style:concise and related patterns" -> -159
           [] x = "When communicating Follow: style:concise_questions and related patterns" -> -83
           [] x = "When generating responses Follow: Prefer: notebooks and related patterns" -> 339
           [] x = "When generating responses Prefer: notebooks" -> 622
           [] x = "When making technical choices Prefer: TypeScript, TypeScript" -> 335
           [] x = "When making technical choices Prefer: TypeScript, TypeScript, TypeScript" -> 405
           [] x = "Always apply Always use TypeScript" -> -363]
    [] a = "When communicating Adopt: concise" -> [x \in LegacyTexts |->
         CASE x = "TypeScript" -> -347 [] x = "style:concise" -> 705
           [] x = "style:concise_questions" -> 388
           [] x = "Prefer: notebooks" -> -334
           [] x = "When communicating Adopt: concise" -> 1000
           [] x = "When communicating Adopt: concise_questions" -> 884
           [] x = "When communicating Follow: style:concise and related patterns" -> 686
           [] x = "When communicating Follow: style:concise_questions and related patterns" -> 532
           [] x = "When generating responses Follow: Prefer: notebooks and related patterns" -> 115
           [] x = "When generating responses Prefer: notebooks" -> -103
           [] x = "When making technical choices Prefer: TypeScript, TypeScript" -> -75
           [] x = "When making technical choices Prefer: TypeScript, TypeScript, TypeScript" -> -143
           [] x = "Always apply Always use TypeScript" -> -60]
    [] a = "When communicating Adopt: concise_questions" -> [x \in LegacyTexts |->
         CASE x = "TypeScript" -> -225 [] x = "style:concise" -> 461
           [] x = "style:concise_questions" -> 494
           [] x = "Prefer: notebooks" -> -242
           [] x = "When communicating Adopt: concise" -> 884
           [] x = "When communicating Adopt: concise_questions" -> 1000
           [] x = "When communicating Follow: style:concise and related patterns" -> 755
           [] x = "When communicating Follow: style:concise_questions and related patterns" -> 720
           [] x = "When generating responses Follow: Prefer: notebooks and related patterns" -> 280
           [] x = "When generating responses Prefer: notebooks" -> 12
           [] x = "When making technical choices Prefer: TypeScript, TypeScript" -> 83
           [] x = "When making technical choices Prefer: TypeScript, TypeScript, TypeScript" -> 16
           [] x = "Always apply Always use TypeScript" -> 12]
    [] a = "When communicating Follow: style:concise and related patterns" -> [x \in LegacyTexts |->
         CASE x = "TypeScript" -> -222 [] x = "style:concise" -> 560
           [] x = "style:concise_questions" -> 630
           [] x = "Prefer: notebooks" -> -159
           [] x = "When communicating Adopt: concise" -> 686
           [] x = "When communicating Adopt: concise_questions" -> 755
           [] x = "When communicating Follow: style:concise and related patterns" -> 1000
           [] x = "When communicating Follow: style:concise_questions and related patterns" -> 965
           [] x = "When generating responses Follow: Prefer: notebooks and related patterns" -> 699
           [] x = "When generating responses Prefer: notebooks" -> 209
           [] x = "When making technical choices Prefer: TypeScript, TypeScript" -> 99
           [] x = "When making technical choices Prefer: TypeScript, TypeScript, TypeScript" -> 30
           [] x = "Always apply Always use TypeScript" -> 154]
    [] a = "When communicating Follow: style:concise_questions and related patterns" -> [x \in LegacyTexts |->
         CASE x = "TypeScript" -> -131 [] x = "style:concise" -> 378
           [] x = "style:concise_questions" -> 641
           [] x = "Prefer: notebooks" -> -83
           [] x = "When communicating Adopt: concise" -> 532
           [] x = "When communicating Adopt: concise_questions" -> 720
           [] x = "When communicating Follow: style:concise and related patterns" -> 965
           [] x = "When communicating Follow: style:concise_questions and related patterns" -> 1000
           [] x = "When generating responses Follow: Prefer: notebooks and related patterns" -> 766
           [] x = "When generating responses Prefer: notebooks" -> 273
           [] x = "When making technical choices Prefer: TypeScript, TypeScript" -> 179
           [] x = "When making technical choices Prefer: TypeScript, TypeScript, TypeScript" -> 118
           [] x = "Always apply Always use TypeScript" -> 194]
    [] a = "When generating responses Follow: Prefer: notebooks and related patterns" -> [x \in LegacyTexts |->
         CASE x = "TypeScript" -> 56 [] x = "style:concise" -> 157
           [] x = "style:concise_questions" -> 458
           [] x = "Prefer: notebooks" -> 339
           [] x = "When communicating Adopt: concise" -> 115
           [] x = "When communicating Adopt: concise_questions" -> 280
           [] x = "When communicating Follow: style:concise and related patterns" -> 699
           [] x = "When communicating Follow: style:concise_questions and related patterns" -> 766
           [] x = "When generating responses Follow: Prefer: notebooks and related patterns" -> 1000
           [] x = "When generating responses Prefer: notebooks" -> 715
           [] x = "When making technical choices Prefer: TypeScript, TypeScript" -> 171
           [] x = "When making technical choices Prefer: TypeScript, TypeScript, TypeScript" -> 155
           [] x = "Always apply Always use TypeScript" -> -51]
    [] a = "When generating responses Prefer: notebooks" -> [x \in LegacyTexts |->
         CASE x = "TypeScript" -> 268 [] x = "style:concise" -> 63
           [] x = "style:concise_questions" -> 326
           [] x = "Prefer: notebooks" -> 622
           [] x = "When communicating Adopt: concise" -> -103
           [] x = "When communicating Adopt: concise_questions" -> 12
           [] x = "When communicating Follow: style:concise and related patterns" -> 209
           [] x = "When communicating Follow: style:concise_questions and related patterns" -> 273
           [] x = "When generating responses Follow: Prefer: notebooks and related patterns" -> 715
           [] x = "When generating responses Prefer: notebooks" -> 1000
           [] x = "When making technical choices Prefer: TypeScript, TypeScript" -> 109
           [] x = "When making technical choices Prefer: TypeScript, TypeScript, TypeScript" -> 153
           [] x = "Always apply Always use TypeScript" -> -452]
    [] a = "When making technical choices Prefer: TypeScript, TypeScript" -> [x \in LegacyTexts |->
         CASE x = "TypeScript" -> 674 [] x = "style:concise" -> -177
           [] x = "style:concise_questions" -> 56
           [] x = "Prefer: notebooks" -> 335
           [] x = "When communicating Adopt: concise" -> -75
           [] x = "When communicating Adopt: concise_questions" -> 83
           [] x = "When communicating Follow: style:concise and related patterns" -> 99
           [] x = "When communicating Follow: style:concise_questions and related patterns" -> 179
           [] x = "When generating responses Follow: Prefer: notebooks and related patterns" -> 171
           [] x = "When generating responses Prefer: notebooks" -> 109
           [] x = "When making technical choices Prefer: TypeScript, TypeScript" -> 1000
           [] x = "When making technical choices Prefer: TypeScript, TypeScript, TypeScript" -> 985
           [] x = "Always apply Always use TypeScript" -> 115]
    [] a = "When making technical choices Prefer: TypeScript, TypeScript, TypeScript" -> [x \in LegacyTexts |->
         CASE x = "TypeScript" -> 791 [] x = "style:concise" -> -181
           [] x = "style:concise_questions" -> 79
           [] x = "Prefer: notebooks" -> 405
           [] x = "When communicating Adopt: concise" -> -143
           [] x = "When communicating Adopt: concise_questions" -> 16
           [] x = "When communicating Follow: style:concise and related patterns" -> 30
           [] x = "When communicating Follow: style:concise_questions and related patterns" -> 118
           [] x = "When generating responses Follow: Prefer: notebooks and related patterns" -> 155
           [] x = "When generating responses Prefer: notebooks" -> 153
           [] x = "When making technical choices Prefer: TypeScript, TypeScript" -> 985
           [] x = "When making technical choices Prefer: TypeScript, TypeScript, TypeScript" -> 1000
           [] x = "Always apply Always use TypeScript" -> 54]
    [] a = "Always apply Always use TypeScript" -> [x \in LegacyTexts |->
         CASE x = "TypeScript" -> -175
           [] x = "style:concise" -> -211
           [] x = "style:concise_questions" -> -146
           [] x = "Prefer: notebooks" -> -363
           [] x = "When communicating Adopt: concise" -> -60
           [] x = "When communicating Adopt: concise_questions" -> 12
           [] x = "When communicating Follow: style:concise and related patterns" -> 154
           [] x = "When communicating Follow: style:concise_questions and related patterns" -> 194
           [] x = "When generating responses Follow: Prefer: notebooks and related patterns" -> -51
           [] x = "When generating responses Prefer: notebooks" -> -452
           [] x = "When making technical choices Prefer: TypeScript, TypeScript" -> 115
           [] x = "When making technical choices Prefer: TypeScript, TypeScript, TypeScript" -> 54
           [] x = "Always apply Always use TypeScript" -> 1000]
legacy_cosine_similarity(a, b) == LegacyCosineRow(a)[b]

(***************************************************************************)
(* Rule (models.py) and SemanticMatcher.cluster_similar                    *)
(***************************************************************************)
One == 1000000

Rule(rule_id, category, condition, action, weight, source_count, t) ==
  [rule_id |-> rule_id, category |-> category, condition |-> condition,
   action |-> action, weight |-> weight, source_count |-> source_count,
   last_activated |-> t, last_reinforced |-> t, contradictions |-> 0]

\* f"{rule.condition} {rule.action}": the text a rule's embedding is of
RuleText(rule) == rule.condition \o " " \o rule.action

\* Rule.reinforce(boost)
reinforce(rule, boost, t) ==
  [rule EXCEPT !.weight = Min(One, @ + boost), !.last_reinforced = t,
               !.source_count = @ + 1]

\* Rule.contradict(penalty)
contradict(rule, penalty) ==
  [rule EXCEPT !.weight = Max(0, @ - penalty), !.contradictions = @ + 1]

\* Rule.decay(): 0.01 for every whole day since last_activated
decay(rule, t) ==
  [rule EXCEPT !.weight = Max(0, @ - 10000 * ((t - rule.last_activated) \div 24))]

\* the k loop of cluster_similar: cluster j's members move to cluster i's
MergeClusters(st, i, j) ==
  [clusters |->
     [st.clusters EXCEPT
        ![st.cluster_map[i]] =
           @ \o SelectSeq(AsSeq([member \in 1..Len(st.cluster_map) |-> member]),
                          LAMBDA moved : st.cluster_map[moved] = st.cluster_map[j]),
        ![st.cluster_map[j]] = <<>>],
   cluster_map |->
     AsSeq([member \in 1..Len(st.cluster_map) |->
        IF st.cluster_map[member] = st.cluster_map[j]
          THEN st.cluster_map[i] ELSE st.cluster_map[member]])]

RECURSIVE ClusterPairs(_, _, _, _, _)
ClusterPairs(st, texts, threshold, i, j) ==
  IF i > Len(texts) THEN st
  ELSE IF j > Len(texts) THEN ClusterPairs(st, texts, threshold, i + 1, i + 2)
  ELSE Only({ClusterPairs(st1, texts, threshold, i, j + 1) :
               st1 \in {IF st.cluster_map[i] = st.cluster_map[j] THEN st
                        ELSE IF legacy_cosine_similarity(texts[i], texts[j]) >= threshold
                          THEN MergeClusters(st, i, j)
                        ELSE st}})

\* SemanticMatcher.cluster_similar(texts, threshold): lists of indices
cluster_similar(texts, threshold) ==
  Only({SelectSeq(st.clusters, LAMBDA cluster : cluster # <<>>) :
          st \in {ClusterPairs([clusters |-> AsSeq([idx \in 1..Len(texts) |-> <<idx>>]),
                                cluster_map |-> AsSeq([idx \in 1..Len(texts) |-> idx])],
                               texts, threshold, 1, 2)}})

(***************************************************************************)
(* LogicCompiler                                                           *)
(***************************************************************************)
CORRECTION_WEIGHT_BOOST == 300000
REINFORCEMENT_BOOST == 100000
CONTRADICTION_PENALTY == 500000
MIN_SIGNALS_FOR_RULE == 2
MIN_CONFIDENCE_FOR_RULE == 50
SIMILARITY_THRESHOLD == 750

_category_map(signal_type) ==
  CASE signal_type = "CORRECTION" -> "BEHAVIORAL_PATTERN"
    [] signal_type = "PREFERENCE" -> "TECHNICAL_PREFERENCE"
    [] signal_type = "STYLE" -> "COMMUNICATION_STYLE"
    [] signal_type = "ENTITY" -> "PROJECT_CONTEXT"
    [] signal_type = "EXPERTISE" -> "DOMAIN_EXPERTISE"
    [] signal_type = "AVERSION" -> "TECHNICAL_PREFERENCE"
    [] signal_type = "CONTEXT" -> "PROJECT_CONTEXT"
    [] signal_type = "PERSONALITY" -> "PERSONALITY_TRAIT"
    [] signal_type = "GOAL" -> "PROJECT_CONTEXT"
    [] signal_type = "WORKFLOW" -> "WORKFLOW_PATTERN"

_generate_condition(signal) ==
  CASE signal.signal_type = "CORRECTION" -> "When generating responses"
    [] signal.signal_type = "PREFERENCE" -> "When making technical choices"
    [] signal.signal_type = "STYLE" -> "When communicating"
    [] signal.signal_type = "AVERSION" -> "When considering options"
    [] signal.signal_type = "EXPERTISE" -> "When explaining concepts"
    [] signal.signal_type = "ENTITY" -> "When working on project"
    [] signal.signal_type = "GOAL" -> "When planning work"
    [] signal.signal_type = "PERSONALITY" -> "When interacting"
    [] signal.signal_type = "CONTEXT" -> "When providing context"
    [] signal.signal_type = "WORKFLOW" -> "When following workflow"

_generate_action(signal) ==
  CASE signal.signal_type = "CORRECTION" ->
         IF startswith(signal.content, "Prefer:") THEN signal.content
         ELSE "Follow: " \o signal.content
    [] signal.signal_type = "PREFERENCE" -> "Prefer: " \o signal.content
    [] signal.signal_type = "AVERSION" ->
         IF startswith(signal.content, "Avoid:") THEN signal.content
         ELSE "Avoid: " \o signal.content
    [] signal.signal_type = "STYLE" ->
         "Adopt: " \o WithoutStylePrefix(signal.content)
    [] signal.signal_type = "EXPERTISE" -> "Acknowledge: " \o signal.content
    [] signal.signal_type = "GOAL" -> "Support goal: " \o signal.content
    [] OTHER -> "Apply: " \o signal.content

\* ', '.join(contents)
RECURSIVE JoinComma(_)
JoinComma(contents) ==
  IF Len(contents) = 1 THEN contents[1]
  ELSE contents[1] \o ", " \o JoinComma(Tail(contents))

_generate_cluster_condition(signals) == _generate_condition(signals[1])

_generate_cluster_action(signals) ==
  IF Len(signals) = 1 THEN _generate_action(signals[1])
  ELSE IF signals[1].signal_type = "PREFERENCE"
    THEN "Prefer: " \o JoinComma(AsSeq([k \in 1..Min(3, Len(signals)) |-> signals[k].content]))
  ELSE IF signals[1].signal_type = "AVERSION"
    THEN "Avoid: " \o JoinComma(AsSeq([k \in 1..Min(3, Len(signals)) |-> signals[k].content]))
  ELSE "Follow: " \o signals[1].content \o " and related patterns"

RECURSIVE SumConfidence(_)
SumConfidence(signals) ==
  IF signals = <<>> THEN 0
  ELSE Head(signals).confidence + SumConfidence(Tail(signals))

SignalCluster(signals, category, condition, action, confidence) ==
  [signals |-> signals, category |-> category, condition |-> condition,
   action |-> action, confidence |-> confidence]

\* the signal types of a list, in order of first occurrence (the keys of by_type)
RECURSIVE TypesInOrder(_, _)
TypesInOrder(signals, seen) ==
  IF signals = <<>> THEN seen
  ELSE IF \E k \in 1..Len(seen) : seen[k] = Head(signals).signal_type
    THEN TypesInOrder(Tail(signals), seen)
  ELSE TypesInOrder(Tail(signals), Append(seen, Head(signals).signal_type))

\* the clusters _cluster_signals makes of the signals of one type
ClustersOfType(type_signals) ==
  IF Len(type_signals) = 1
    THEN <<SignalCluster(type_signals,
                         _category_map(type_signals[1].signal_type),
                         _generate_condition(type_signals[1]),
                         _generate_action(type_signals[1]),
                         type_signals[1].confidence)>>
  ELSE Only({AsSeq([c \in 1..Len(similar_clusters) |->
                Only({SignalCluster(cluster_signals,
                                    _category_map(type_signals[1].signal_type),
                                    _generate_cluster_condition(cluster_signals),
                                    _generate_cluster_action(cluster_signals),
                                    SumConfidence(cluster_signals) \div Len(cluster_signals)) :
                        cluster_signals \in
                          {AsSeq([k \in 1..Len(similar_clusters[c]) |->
                              type_signals[similar_clusters[c][k]]])}})]) :
               similar_clusters \in
                 {cluster_similar(AsSeq([k \in 1..Len(type_signals) |-> type_signals[k].content]),
                                  SIMILARITY_THRESHOLD)}})

RECURSIVE ClustersOfTypes(_, _)
ClustersOfTypes(signals, types) ==
  IF types = <<>> THEN <<>>
  ELSE ClustersOfType(SelectSeq(signals, LAMBDA s : s.signal_type = Head(types)))
         \o ClustersOfTypes(signals, Tail(types))

\* LogicCompiler._cluster_signals(signals)
_cluster_signals(signals) == ClustersOfTypes(signals, TypesInOrder(signals, <<>>))

NoMatch == [index |-> 0, similarity |-> 0]

\* LogicCompiler._find_similar_rule(cluster): the index of the best rule of
\* the cluster's category and its similarity (index 0: None)
RECURSIVE FindSimilarFrom(_, _, _, _)
FindSimilarFrom(rules, cluster, k, best) ==
  IF k > Len(rules) THEN best
  ELSE IF rules[k].category # cluster.category
    THEN FindSimilarFrom(rules, cluster, k + 1, best)
  ELSE Only({FindSimilarFrom(rules, cluster, k + 1,
                             IF similarity > SIMILARITY_THRESHOLD
                                /\ similarity > best.similarity
                               THEN [index |-> k, similarity |-> similarity]
                             ELSE best) :
               similarity \in
                 {legacy_cosine_similarity(cluster.condition \o " " \o cluster.action,
                                           RuleText(rules[k]))}})

_find_similar_rule(rules, cluster) == FindSimilarFrom(rules, cluster, 1, NoMatch)

\* LogicCompiler._should_compile_rule(cluster)
_should_compile_rule(rules, cluster) ==
  IF Len(cluster.signals) < MIN_SIGNALS_FOR_RULE
    THEN cluster.signals # <<>> /\ cluster.signals[1].confidence >= 80
  ELSE IF cluster.confidence < MIN_CONFIDENCE_FOR_RULE THEN FALSE
  ELSE _find_similar_rule(rules, cluster).index = 0

\* base_weight of _compile_rule
CompiledWeight(cluster) ==
  Only({IF Len(cluster.signals) > 2 THEN Min(One, (boosted * 3) \div 2)
        ELSE boosted :
          boosted \in
            {IF \E k \in 1..Len(cluster.signals) :
                  cluster.signals[k].signal_type = "CORRECTION"
               THEN Min(One, cluster.confidence * 10000 + CORRECTION_WEIGHT_BOOST)
             ELSE cluster.confidence * 10000}})

\* LogicCompiler._compile_rule(cluster)
_compile_rule(cluster, rule_id, t) ==
  Rule(rule_id, cluster.category, cluster.condition, cluster.action,
       CompiledWeight(cluster), Len(cluster.signals), t)

\* the first rule whose embedding is closer than consolidation_threshold
\* to the new rule's (0: none)
consolidation_threshold == 800

FirstSimilarIndex(rules, rule) ==
  IF \E k \in 1..Len(rules) :
       legacy_cosine_similarity(RuleText(rules[k]), RuleText(rule)) > consolidation_threshold
    THEN CHOOSE k \in 1..Len(rules) :
           /\ legacy_cosine_similarity(RuleText(rules[k]), RuleText(rule)) > consolidation_threshold
           /\ \A m \in 1..(k - 1) :
                legacy_cosine_similarity(RuleText(rules[m]), RuleText(rule)) <= consolidation_threshold
  ELSE 0

\* UserKernel.add_rule(rule) on L = the legacy state (max_rules, 1000, is
\* never reached here)
add_rule(L, rule, t) ==
  Only({IF k # 0
          THEN [L EXCEPT !.rules[k] = reinforce(@, 100000, t)]
        ELSE [L EXCEPT !.rules = Append(@, rule),
                       !.metadata.total_rules = Len(L.rules) + 1,
                       !.rules_added = @ + 1] :
          k \in {FirstSimilarIndex(L.rules, rule)}})

\* LogicCompiler._detect_contradictions(signal): indices of the rules and
\* the similarities
_detect_contradictions(rules, signal) ==
  IF signal.signal_type # "CORRECTION" THEN <<>>
  ELSE SelectSeq(AsSeq([k \in 1..Len(rules) |->
                    [index |-> k,
                     similarity |-> legacy_cosine_similarity(signal.content, RuleText(rules[k]))]]),
                 LAMBDA c : c.similarity > 500 /\ is_negation(signal.content))

RECURSIVE ContradictAll(_, _)
ContradictAll(rules, contradictions) ==
  IF contradictions = <<>> THEN rules
  ELSE Only({ContradictAll(rules1, Tail(contradictions)) :
               rules1 \in
                 {[rules EXCEPT ![Head(contradictions).index] =
                     contradict(@, (CONTRADICTION_PENALTY \div 1000)
                                     * Head(contradictions).similarity)]}})

\* evolve, steps 1 and 2
RECURSIVE DetectAndContradict(_, _)
DetectAndContradict(rules, signals) ==
  IF signals = <<>> THEN rules
  ELSE Only({DetectAndContradict(rules1, Tail(signals)) :
               rules1 \in {ContradictAll(rules, _detect_contradictions(rules, Head(signals)))}})

\* LogicCompiler._reinforce_existing_rules(cluster)
_reinforce_existing_rules(L, cluster, t) ==
  Only({IF similar.index = 0 THEN L
        ELSE [L EXCEPT !.rules[similar.index] =
                reinforce(@, ((REINFORCEMENT_BOOST \div 100000) * similar.similarity)
                               * cluster.confidence, t)] :
          similar \in {_find_similar_rule(L.rules, cluster)}})

\* evolve, step 3
RECURSIVE CompileClusters(_, _, _)
CompileClusters(L, clusters, t) ==
  IF clusters = <<>> THEN L
  ELSE Only({CompileClusters(L1, Tail(clusters), t) :
               L1 \in {IF _should_compile_rule(L.rules, Head(clusters))
                         THEN add_rule([L EXCEPT !.uuid = @ + 1],
                                       _compile_rule(Head(clusters), L.uuid, t), t)
                       ELSE _reinforce_existing_rules(L, Head(clusters), t)}})

\* UserProfile.add_preference("language", item, is_positive=True)
add_preference(profile, item) ==
  IF \E k \in 1..Len(profile.preferred_languages) :
       profile.preferred_languages[k] = item
    THEN profile
  ELSE [profile EXCEPT !.preferred_languages = Append(@, item)]

RECURSIVE AddLanguages(_, _)
AddLanguages(profile, languages) ==
  IF languages = <<>> THEN profile
  ELSE AddLanguages(add_preference(profile, Head(languages)), Tail(languages))

\* LogicCompiler._update_profile(signals)
RECURSIVE _update_profile(_, _)
_update_profile(profile, signals) ==
  IF signals = <<>> THEN profile
  ELSE Only({_update_profile(profile1, Tail(signals)) :
               profile1 \in
                 {IF Head(signals).signal_type = "PREFERENCE"
                    THEN AddLanguages(profile, LanguagesIn(Head(signals).content))
                  ELSE profile}})

\* style_map of _update_style: ("verbosity", 0.2) for both styles seen
StyleTarget == 200000

\* StyleVector.update("verbosity", target_value, strength)
StyleVector_update(style, target_value, strength) ==
  [verbosity |->
     Max(0, Min(One, style.verbosity
                       + ((((100 - style.confidence) * strength) \div 10)
                            * (target_value - style.verbosity)) \div 10000)),
   confidence |-> Min(95, style.confidence + 5)]

\* LogicCompiler._update_style(signals)
RECURSIVE _update_style(_, _)
_update_style(style, signals) ==
  IF signals = <<>> THEN style
  ELSE Only({_update_style(style1, Tail(signals)) :
               style1 \in
                 {IF Head(signals).signal_type = "STYLE"
                       /\ WithoutStylePrefix(Head(signals).content)
                            \in {"concise", "concise_questions"}
                    THEN StyleVector_update(style, StyleTarget, Head(signals).confidence)
                  ELSE style}})

(***************************************************************************)
(* UserKernel                                                              *)
(***************************************************************************)
rule_min_weight == 100000

RECURSIVE DecayAndPrune(_, _)
DecayAndPrune(rules, t) ==
  IF rules = <<>> THEN <<>>
  ELSE Only({(IF rule.weight < rule_min_weight THEN <<>> ELSE <<rule>>)
               \o DecayAndPrune(Tail(rules), t) :
               rule \in {decay(Head(rules), t)}})

\* the members of one cluster of _consolidate_rules, highest weight first
\* (list.sort is stable)
RECURSIVE InsertByWeight(_, _)
InsertByWeight(sorted, rule) ==
  IF sorted = <<>> THEN <<rule>>
  ELSE IF Head(sorted).weight >= rule.weight
    THEN <<Head(sorted)>> \o InsertByWeight(Tail(sorted), rule)
  ELSE <<rule>> \o sorted

RECURSIVE SortByWeight(_)
SortByWeight(rules) ==
  IF rules = <<>> THEN <<>>
  ELSE InsertByWeight(SortByWeight(SubSeq(rules, 1, Len(rules) - 1)),
                      rules[Len(rules)])

RECURSIVE MergeInto(_, _)
MergeInto(primary, others) ==
  IF others = <<>> THEN primary
  ELSE MergeInto([primary EXCEPT
                    !.weight = Min(One, @ + Head(others).weight \div 2),
                    !.source_count = @ + Head(others).source_count],
                 Tail(others))

\* one cluster of rules: the primary, merged, stays in its place; the others go
RECURSIVE ConsolidateClusters(_, _, _)
ConsolidateClusters(rules, ids, clusters) ==
  IF clusters = <<>> THEN rules
  ELSE IF Len(Head(clusters)) <= 1
    THEN ConsolidateClusters(rules, ids, Tail(clusters))
  ELSE Only({ConsolidateClusters(
                 SelectSeq(AsSeq([k \in 1..Len(rules) |->
                              IF rules[k].rule_id = members[1].rule_id
                                THEN MergeInto(members[1], Tail(members))
                              ELSE rules[k]]),
                           LAMBDA r : \A m \in 2..Len(members) :
                                        r.rule_id # members[m].rule_id),
                 ids, Tail(clusters)) :
               members \in
                 {SortByWeight(AsSeq([k \in 1..Len(Head(clusters)) |->
                                  CHOOSE r \in {rules[m] : m \in 1..Len(rules)} :
                                    r.rule_id = ids[Head(clusters)[k]]]))}})

\* UserKernel._consolidate_rules(): the rules left and whether any merged
_consolidate_rules(rules) ==
  IF Len(rules) < 2 THEN rules
  ELSE ConsolidateClusters(rules, AsSeq([k \in 1..Len(rules) |-> rules[k].rule_id]),
                           cluster_similar(AsSeq([k \in 1..Len(rules) |-> RuleText(rules[k])]),
                                           consolidation_threshold))

\* UserKernel.garbage_collect() (max_size of the registry, 10000, is never
\* reached here)
UserKernel_garbage_collect(L, t) ==
  Only({Only({[L EXCEPT
                 !._processed_registry =
                    @ \cup {content_hash(L._interaction_logs[k].user_input,
                                         L._interaction_logs[k].ai_output) :
                              k \in {m \in 1..Len(L._interaction_logs) :
                                       L._interaction_logs[m].processed}},
                 !._interaction_logs = SelectSeq(@, LAMBDA log : ~log.processed),
                 !.rules = consolidated,
                 !.metadata.consolidations =
                    IF Len(consolidated) < Len(pruned) THEN @ + 1 ELSE @,
                 !.metadata.garbage_collections = @ + 1,
                 !.metadata.total_rules = Len(consolidated)] :
                consolidated \in {_consolidate_rules(pruned)}}) :
          pruned \in {DecayAndPrune(L.rules, t)}})

\* UserKernel.log_interaction without the registry check
log_interaction_unchecked(L, user_input, ai_output) ==
  [L |-> [L EXCEPT
            !._interaction_logs = Append(@, [log_id |-> L.uuid, user_input |-> user_input,
                                ai_output |-> ai_output, processed |-> FALSE]),
            !.profile.total_interactions = @ + 1,
            !.metadata.total_interactions_processed = @ + 1,
            !.uuid = @ + 1],
   log_id |-> L.uuid]

\* UserKernel.log_interaction(user_input, ai_output): the state and the
\* log id returned (NoId: None)
log_interaction(L, user_input, ai_output) ==
  IF content_hash(user_input, ai_output) \in L._processed_registry
    THEN [L |-> [L EXCEPT !.uuid = @ + 1], log_id |-> NoId]
  ELSE [L |-> [L EXCEPT
                 !._interaction_logs = Append(@, [log_id |-> L.uuid, user_input |-> user_input,
                                     ai_output |-> ai_output, processed |-> FALSE]),
                 !.profile.total_interactions = @ + 1,
                 !.metadata.total_interactions_processed = @ + 1,
                 !.uuid = @ + 1],
        log_id |-> L.uuid]

\* LogicCompiler.evolve(signals), steps 1 to 6, for a non-empty list
EvolveSteps(L, signals, t) ==
  Only({Only({UserKernel_garbage_collect(
                [L2 EXCEPT !.profile = _update_profile(@, signals),
                           !.style_vector = _update_style(@, signals)], t) :
                L2 \in {CompileClusters(L1, _cluster_signals(signals), t)}}) :
          L1 \in {[L EXCEPT !.rules = DetectAndContradict(@, signals)]}})

\* LogicCompiler.evolve(signals)
LogicCompiler_evolve(L, signals, t) ==
  IF signals = <<>> THEN L
  ELSE Only({[L3 EXCEPT !._pending_signals = <<>>] :
               L3 \in {EvolveSteps(L, signals, t)}})

(***************************************************************************)
(* Threads calling one ScopedKernel (enable_thread_safety = True)          *)
(*                                                                         *)
(* A thread runs one public method at a time, statement by statement; pc   *)
(* is the statement it is about to execute.  The interpreter may switch    *)
(* threads between any two statements, and between two elements of an      *)
(* iteration over a dict.                                                  *)
(***************************************************************************)
Threads == {1, 2}
MaxThreadCalls == 3

\* threading.RLock(): no owner, count 0
NoOwner == 0
NewLock == [owner |-> NoOwner, count |-> 0]

Idle == "idle"
NoFrame ==
  [size |-> 0, log_id |-> NoId, content_hash |-> "", raised |-> FALSE,
   x |-> <<>>, signals |-> <<>>]

\* the statements that read or write an internal map of the kernel
MapAccess ==
  {"add_goal:store",
   "garbage_collect:iterate", "garbage_collect:iterating", "garbage_collect:delete",
   "log_interaction:check", "log_interaction:store", "log_interaction:register",
   "get_active_goals:iterate", "get_active_goals:iterating",
   "get_pending_hypotheses:iterate", "get_pending_hypotheses:iterating",
   "query_scoped_rules:iterate", "query_scoped_rules:iterating",
   "export:read"}

\* the statement after self._acquire_lock() in the methods that call it
AfterAcquire ==
  [stmt \in {"add_goal:acquire", "garbage_collect:acquire",
             "query_scoped_rules:acquire"} |->
     IF stmt = "add_goal:acquire" THEN "add_goal:store"
     ELSE IF stmt = "garbage_collect:acquire" THEN "garbage_collect:iterate"
     ELSE "query_scoped_rules:iterate"]

\* the statements of the finally blocks
Finally ==
  {"add_goal:finally", "garbage_collect:finally", "query_scoped_rules:finally"}

\* RLock.acquire() by thread t: possible when no other thread owns the lock
CanAcquire(lock, t) == lock.owner \in {NoOwner, t}
acquire(lock, t) == [owner |-> t, count |-> lock.count + 1]

\* RLock.release() by its owner
release(lock) ==
  IF lock.count = 1 THEN NewLock ELSE [lock EXCEPT !.count = @ - 1]

(***************************************************************************)
(* IBLM facade (auto_evolve, auto_gc and enable_validation on)             *)
(***************************************************************************)
\* IBLM.evolve()
IBLM_evolve(L, t) ==
  Only({[L1 EXCEPT !._total_evolutions = @ + 1] :
          L1 \in {LogicCompiler_evolve(L, L._pending_signals, t)}})

\* IBLM.garbage_collect()
IBLM_garbage_collect(L, t) ==
  Only({[L1 EXCEPT !._interaction_count = 0] :
          L1 \in {UserKernel_garbage_collect(L, t)}})

\* the part of observe after a log id was obtained; evolve is <<>> for None
ObserveLogged(L, signals, evolve, t) ==
  Only({Only({IF L2._interaction_count >= gc_threshold
                THEN IBLM_garbage_collect(L2, t) ELSE L2 :
                L2 \in {IF (IF evolve # <<>> THEN evolve[1] ELSE TRUE)
                          THEN IBLM_evolve(L1, t) ELSE L1}}) :
          L1 \in {[L EXCEPT !._pending_signals = @ \o signals,
                            !._interaction_count = @ + 1,
                            !._total_observations = @ + 1]}})

\* IBLM.observe(user_input, ai_output, evolve): the state and the result
observe(L, user_input, ai_output, evolve, t) ==
  Only({IF logged.log_id = NoId
          THEN [L |-> logged.L,
                result |-> [status |-> "skipped", reason |-> "duplicate"]]
        ELSE Only({[L |-> ObserveLogged(logged.L, signals, evolve, t),
                    result |-> [status |-> "observed", log_id |-> logged.log_id,
                                signals_extracted |-> Len(signals)]] :
                     signals \in {InteractionObserver_observe(
                                    _validate_input(user_input),
                                    _validate_input(ai_output))}}) :
          logged \in {log_interaction(L, _validate_input(user_input),
                                      _validate_input(ai_output))}})

\* the instruction taught in the model
I_AlwaysTS == "Always use TypeScript"

\* category_map.get(category, RuleCategory.BEHAVIORAL_PATTERN) of IBLM.teach
teach_category_map(category) ==
  CASE category = "preference"  -> "TECHNICAL_PREFERENCE"
    [] category = "style"       -> "COMMUNICATION_STYLE"
    [] category = "expertise"   -> "DOMAIN_EXPERTISE"
    [] category = "workflow"    -> "WORKFLOW_PATTERN"
    [] category = "personality" -> "PERSONALITY_TRAIT"
    [] OTHER                    -> "BEHAVIORAL_PATTERN"

\* LogicCompiler.force_rule(condition, action, category, weight)
force_rule(L, condition, action, category, weight, t) ==
  add_rule([L EXCEPT !.uuid = @ + 1],
           Rule(L.uuid, category, condition, action, weight, 1, t), t)

\* IBLM.teach(instruction, category)
teach(L, instruction, category, t) ==
  force_rule(L, "Always apply", instruction, teach_category_map(category), 900000, t)

\* UserProfile(), StyleVector(), KernelMetadata() as constructed
NewProfile == [total_interactions |-> 0, preferred_languages |-> <<>>]
NewStyleVector == [verbosity |-> 500000, confidence |-> 10]
NewMetadata ==
  [total_rules |-> 0, total_interactions_processed |-> 0,
   garbage_collections |-> 0, consolidations |-> 0]

\* IBLM(config) as constructed, with a new UserKernel
NewFacade ==
  [rules |-> <<>>, _interaction_logs |-> <<>>, _pending_signals |-> <<>>,
   _processed_registry |-> {}, profile |-> NewProfile,
   style_vector |-> NewStyleVector, metadata |-> NewMetadata,
   rules_added |-> 0, uuid |-> 1, _interaction_count |-> 0,
   _total_observations |-> 0, _total_evolutions |-> 0]

\* a saved brain whose registry holds the greeting's hash: the keys of
\* IBLM.export() that from_dict and UserKernel.load read
SeedPayload ==
  [stats |-> [total_observations |-> 0, total_evolutions |-> 0],
   kernel |-> [rules |-> <<>>,
               processed_registry |->
                 [hashes |-> <<content_hash(U_Hello, "hi")>>, max_size |-> 10000]]]

Payloads == {SeedPayload}

\* IBLM.from_dict(data): UserKernel.load(data["kernel"]) in a new facade
\* (the payloads carry no rule, so Rule.from_dict is not applied)
from_dict(data, next_uuid) ==
  [rules |-> <<>>,
   _interaction_logs |-> <<>>,
   _pending_signals |-> <<>>,
   _processed_registry |-> {data.kernel.processed_registry.hashes[k] :
                   k \in 1..Len(data.kernel.processed_registry.hashes)},
   profile |-> NewProfile,
   style_vector |-> NewStyleVector,
   metadata |-> NewMetadata,
   rules_added |-> 0,
   uuid |-> next_uuid,
   _interaction_count |-> 0,
   _total_observations |-> data.stats.total_observations,
   _total_evolutions |-> data.stats.total_evolutions]

(***************************************************************************)
VARIABLES
  scoped_rules,    \* ScopedKernel.scoped_rules
  hypotheses,      \* ScopedKernel.hypotheses
  context_nodes,   \* ScopedKernel.context_nodes
  archive,         \* entries appended to ScopedKernel.cold_storage
  uuid,            \* next fresh uuid4
  now,             \* datetime.now(), hours
  calls,           \* number of API calls made so far
  lastCall,        \* the last API call: its name, arguments and result
  streak,          \* the run of identical single-signal evolve_scoped calls
                   \* made on a kernel that started empty
  goals,           \* ScopedKernel.goals
  facts,           \* ScopedKernel.facts
  active_project,  \* ScopedKernel.active_project
  _metrics,        \* ScopedKernel._metrics
  saved,           \* what export() returned last (no element: nothing yet)
  rules,                \* UserKernel.rules
  _interaction_logs,    \* UserKernel._interaction_logs
  _pending_signals,     \* UserKernel._pending_signals
  _processed_registry,  \* UserKernel._processed_registry.hashes
  profile,              \* UserKernel.profile
  style_vector,         \* UserKernel.style_vector
  metadata,             \* UserKernel.metadata
  rules_added,          \* UserKernel._metrics["rules_added"]
  _interaction_count,   \* IBLM._interaction_count
  _total_observations,  \* IBLM._total_observations
  _total_evolutions,    \* IBLM._total_evolutions
  _lock,                      \* ScopedKernel._lock: the RLock's owner and count
  pc,                         \* the statement each thread is about to execute
  frame,                      \* each thread's local variables
  scoped_interaction_logs,    \* ScopedKernel._interaction_logs
  scoped_processed_registry,  \* ScopedKernel._processed_registry.hashes
  disk,                       \* the files of the archive directory: what
                              \* each holds, by inode
  names                       \* the directory: the inode of each file name

compilerVars ==
  <<scoped_rules, hypotheses, context_nodes, archive, uuid, now, calls,
    lastCall, streak>>

kernelVars == <<goals, facts, active_project, _metrics, saved>>

\* the legacy UserKernel and the IBLM facade over it
legacyVars ==
  <<rules, _interaction_logs, _pending_signals, _processed_registry, profile,
    style_vector, metadata, rules_added, _interaction_count,
    _total_observations, _total_evolutions>>

\* the ScopedKernel's lock, its interaction logs, the threads calling it and
\* the archive files they write
threadVars ==
  <<_lock, pc, frame, scoped_interaction_logs, scoped_processed_registry,
    disk, names>>

vars == <<compilerVars, kernelVars, legacyVars, threadVars>>

\* the state a ScopedCompiler call leaves alone
outsideCompiler == <<kernelVars, legacyVars, threadVars>>

KernelState ==
  [scoped_rules |-> scoped_rules, hypotheses |-> hypotheses,
   context_nodes |-> context_nodes, archive |-> archive, uuid |-> uuid,
   report |-> ScopedEvolutionReport]

SetKernel(K) ==
  /\ scoped_rules' = K.scoped_rules
  /\ hypotheses' = K.hypotheses
  /\ context_nodes' = K.context_nodes
  /\ archive' = K.archive
  /\ uuid' = K.uuid

NoCall == [op |-> "none", signals |-> <<>>, report |-> ScopedEvolutionReport]
NoStreak == [signals |-> <<>>, n |-> 0]

\* ScopedKernel.__init__ (with cold storage configured) + ScopedCompiler.__init__;
\* IBLM.__init__ with a new UserKernel
Init ==
  /\ scoped_rules = <<>>
  /\ hypotheses = <<>>
  /\ context_nodes = <<>>
  /\ archive = <<>>
  /\ uuid = 1
  /\ now = 0
  /\ calls = 0
  /\ lastCall = NoCall
  /\ streak = NoStreak
  /\ goals = <<>>
  /\ facts = <<>>
  /\ active_project = None
  /\ _metrics = NoMetrics
  /\ saved = <<>>
  /\ rules = <<>>
  /\ _interaction_logs = <<>>
  /\ _pending_signals = <<>>
  /\ _processed_registry = {}
  /\ profile = NewProfile
  /\ style_vector = NewStyleVector
  /\ metadata = NewMetadata
  /\ rules_added = 0
  /\ _interaction_count = 0
  /\ _total_observations = 0
  /\ _total_evolutions = 0
  /\ _lock = NewLock
  /\ pc = [t \in Threads |-> Idle]
  /\ frame = [t \in Threads |-> NoFrame]
  /\ scoped_interaction_logs = <<>>
  /\ scoped_processed_registry = {}
  /\ disk = <<>>
  /\ names = {}

(***************************************************************************)
(* Inputs                                                                  *)
(***************************************************************************)
Signal(signal_type, content, confidence) ==
  [signal_type |-> signal_type, content |-> content,
   confidence |-> confidence, project |-> None]

S_UseTS == Signal("PREFERENCE", T_UseTS, 80)
S_UseTSWeak == Signal("PREFERENCE", T_UseTS, 20)
S_NeverTS == Signal("CORRECTION", T_NeverTS, 80)
S_Async == Signal("PREFERENCE", T_Async, 80)
S_NotFA == Signal("CORRECTION", T_NotFA, 80)

SingleSignals == {S_UseTS, S_UseTSWeak, S_NeverTS, S_Async, S_NotFA}

Batches ==
  {<<S_UseTS, S_UseTS>>, <<S_Async, S_NotFA>>, <<S_UseTS, S_NeverTS>>}

SignalLists == {<<s>> : s \in SingleSignals} \cup Batches

\* hours that pass in one Tick (more than the 24 h lifetime of a hypothesis)
TickHours == 25

(***************************************************************************)
(* Actions: the ScopedCompiler API                                         *)
(***************************************************************************)
IsEmptyKernel ==
  scoped_rules = <<>> /\ hypotheses = <<>> /\ context_nodes = <<>>

\* ScopedCompiler.evolve_scoped(signals)
EvolveScoped(signals) ==
  /\ calls < MaxCalls
  /\ \E K \in {evolve_scoped(KernelState, signals, now)} :
        /\ SetKernel(K)
        /\ lastCall' = [op |-> "evolve_scoped", signals |-> signals,
                        report |-> K.report]
  /\ calls' = calls + 1
  /\ streak' = IF Len(signals) = 1 /\ IsEmptyKernel
                 THEN [signals |-> signals, n |-> 1]
               ELSE IF Len(signals) = 1 /\ streak.signals = signals
                 THEN [streak EXCEPT !.n = @ + 1]
               ELSE NoStreak
  /\ UNCHANGED <<now, outsideCompiler>>

\* ScopedCompiler.force_scoped_rule(content, scope_path, target_node_id)
ForceScopedRule(content, scope_path, target_node_id) ==
  /\ calls < MaxCalls
  /\ \E K \in {force_scoped_rule(KernelState, content, scope_path, target_node_id)} :
        SetKernel(K)
  /\ lastCall' = [op |-> "force_scoped_rule", signals |-> <<>>,
                  report |-> ScopedEvolutionReport]
  /\ calls' = calls + 1
  /\ streak' = NoStreak
  /\ UNCHANGED <<now, outsideCompiler>>

\* time passes between calls
Tick ==
  /\ now < MaxTicks * TickHours
  /\ now' = now + TickHours
  /\ streak' = NoStreak
  /\ UNCHANGED <<scoped_rules, hypotheses, context_nodes, archive, uuid,
                 calls, lastCall, outsideCompiler>>

ForcedRules ==
  {<<T_Async, <<"Python">>, "lang_python">>,
   <<T_AsyncFA, <<"Python", "FastAPI", "API">>, "fw_fastapi">>}

Next ==
  \/ \E signals \in SignalLists : EvolveScoped(signals)
  \/ \E f \in ForcedRules : ForceScopedRule(f[1], f[2], f[3])
  \/ Tick

Spec == Init /\ [][Next]_vars

(***************************************************************************)
(* evolve_scoped over the interaction lifetime of a hypothesis             *)
(***************************************************************************)
MaxExpiryCalls == 11

\* a signal too weak to create a hypothesis (confidence < 0.3)
S_AsyncWeak == Signal("PREFERENCE", T_Async, 20)

ExpirySignalLists == {<<S_UseTS>>, <<S_AsyncWeak>>}

\* ScopedCompiler.evolve_scoped(signals), up to MaxExpiryCalls calls
EvolveScopedLong(signals) ==
  /\ calls < MaxExpiryCalls
  /\ \E K \in {evolve_scoped(KernelState, signals, now)} :
        /\ SetKernel(K)
        /\ lastCall' = [op |-> "evolve_scoped", signals |-> signals,
                        report |-> K.report]
  /\ calls' = calls + 1
  /\ streak' = NoStreak
  /\ UNCHANGED <<now, outsideCompiler>>

NextExpiry ==
  \/ \E signals \in ExpirySignalLists : EvolveScopedLong(signals)
  \/ Tick

SpecExpiry == Init /\ [][NextExpiry]_vars

(***************************************************************************)
(* The ScopedKernel rule store: add_scoped_rule and query_scoped_rules     *)
(***************************************************************************)
MaxAdds == 12

\* rules a caller builds (fields not given keep the dataclass defaults)
RuleTemplates ==
  {[content |-> T_AsyncFA, scope_path |-> <<"Python", "FastAPI">>,
    target_node |-> "fw_fastapi", weight |-> 50, confidence |-> 20,
    state |-> "HYPOTHESIS"],
   [content |-> T_Tabs, scope_path |-> <<>>,
    target_node |-> "global", weight |-> 20, confidence |-> 40,
    state |-> "HYPOTHESIS"]}

\* ScopedRule(rule_id = ..., content = ..., ..., state = ...) built by the caller
NewRule(tpl, rule_id) ==
  [ScopedRule(rule_id, tpl.content, tpl.scope_path, tpl.target_node, "PREFERS",
              tpl.confidence, tpl.weight, 1, NoId) EXCEPT !.state = tpl.state]

Contexts ==
  {<<"PYTHON", "fastapi", "API">>, <<"FastAPI", "Python">>, <<"Python">>}

\* ScopedKernel.add_scoped_rule(rule)
AddScopedRule(tpl) ==
  /\ calls < MaxAdds
  /\ \E R \in {add_scoped_rule([scoped_rules |-> scoped_rules, archive |-> archive],
                               NewRule(tpl, uuid))} :
        /\ scoped_rules' = R.scoped_rules
        /\ archive' = R.archive
  /\ uuid' = uuid + 1
  /\ _metrics' = [_metrics EXCEPT !.scoped_rules_added = @ + 1]
  /\ calls' = calls + 1
  /\ lastCall' = [op |-> "add_scoped_rule", active_context |-> <<>>,
                  result |-> <<uuid>>]
  /\ UNCHANGED <<hypotheses, context_nodes, now, streak, goals, facts,
                 active_project, saved, legacyVars,
                 threadVars>>

\* ScopedKernel.query_scoped_rules(active_context)
QueryScopedRules(active_context) ==
  /\ lastCall' = [op |-> "query_scoped_rules",
                  active_context |-> active_context,
                  result |-> query_scoped_rules(scoped_rules, active_context, top_k)]
  /\ UNCHANGED <<scoped_rules, hypotheses, context_nodes, archive, uuid, now,
                 calls, streak, kernelVars, legacyVars,
                 threadVars>>

NextQuery ==
  \/ \E tpl \in RuleTemplates : AddScopedRule(tpl)
  \/ \E ctx \in Contexts : QueryScopedRules(ctx)

SpecQuery == Init /\ [][NextQuery]_vars

(***************************************************************************)
(* The ScopedKernel as a whole: goals, facts, project, export and load     *)
(***************************************************************************)
MaxKernelCalls == 4

\* the fields of the kernel that export and load are about
KernelFields ==
  [scoped_rules |-> scoped_rules, hypotheses |-> hypotheses,
   context_nodes |-> context_nodes, goals |-> goals, facts |-> facts,
   active_project |-> active_project, _metrics |-> _metrics]

\* UserGoal(goal_id, content, scope_path) and UserFact(fact_id, content,
\* scope_path), other fields at their defaults
UserGoal(goal_id, content, scope_path) ==
  [goal_id |-> goal_id, content |-> content, scope_path |-> scope_path,
   priority |-> 10, confidence |-> 80, expiry |-> NoTime,
   last_reinforced |-> now, half_life_days |-> 7]

UserFact(fact_id, content, scope_path) ==
  [fact_id |-> fact_id, content |-> content, scope_path |-> scope_path,
   priority |-> 5, confidence |-> 50, source |-> "observation",
   validation_count |-> 0]

KernelCall(op) ==
  /\ calls < MaxKernelCalls
  /\ calls' = calls + 1
  /\ lastCall' = [op |-> op]

\* ScopedKernel.add_goal(goal)
AddGoal(content, scope_path) ==
  /\ KernelCall("add_goal")
  /\ goals' = Append(goals, UserGoal(uuid, content, scope_path))
  /\ uuid' = uuid + 1
  /\ UNCHANGED <<scoped_rules, hypotheses, context_nodes, archive, now,
                 streak, facts, active_project, _metrics, saved, legacyVars,
                 threadVars>>

\* ScopedKernel.add_fact(fact)
AddFact(content, scope_path) ==
  /\ KernelCall("add_fact")
  /\ facts' = Append(facts, UserFact(uuid, content, scope_path))
  /\ uuid' = uuid + 1
  /\ UNCHANGED <<scoped_rules, hypotheses, context_nodes, archive, now,
                 streak, goals, active_project, _metrics, saved, legacyVars,
                 threadVars>>

\* ScopedKernel.set_active_project(name)
SetActiveProject(name) ==
  /\ KernelCall("set_active_project")
  /\ active_project' = name
  /\ UNCHANGED <<scoped_rules, hypotheses, context_nodes, archive, uuid, now,
                 streak, goals, facts, _metrics, saved, legacyVars,
                 threadVars>>

\* data = kernel.export()
Export ==
  /\ KernelCall("export")
  /\ saved' = <<export(KernelFields)>>
  /\ UNCHANGED <<scoped_rules, hypotheses, context_nodes, archive, uuid, now,
                 streak, goals, facts, active_project, _metrics, legacyVars,
                 threadVars>>

\* the "version" of the payloads that are loaded: the one export writes and
\* those of files written by other releases
Versions == {"3.0.0", "3.0.1", "3.1.0", "4.0.0"}

\* kernel = ScopedKernel.load(data) for the saved payload carrying this
\* version, the loaded kernel replacing the one in use; data["metrics"] is
\* read from the exporting kernel if data still shares its _metrics dict
Load(version) ==
  /\ saved # <<>>
  /\ KernelCall("load")
  /\ \E data \in {IF saved[1].metrics_live
                    THEN [saved[1] EXCEPT !.metrics = _metrics, !.version = version]
                    ELSE [saved[1] EXCEPT !.version = version]} :
       /\ \E S \in {load(data)} :
            /\ scoped_rules' = S.scoped_rules
            /\ hypotheses' = S.hypotheses
            /\ context_nodes' = S.context_nodes
            /\ goals' = S.goals
            /\ facts' = S.facts
            /\ active_project' = S.active_project
            /\ _metrics' = S._metrics
       /\ saved' = <<[data EXCEPT !.metrics_live = FALSE]>>
  /\ UNCHANGED <<archive, uuid, now, streak, legacyVars,
                 threadVars>>

NextKernel ==
  \/ AddGoal("Write clean, maintainable code", <<"Python">>)
  \/ AddFact("User types fast", <<>>)
  \/ SetActiveProject("Demo")
  \/ \E tpl \in RuleTemplates : calls < MaxKernelCalls /\ AddScopedRule(tpl)
  \/ \E s \in {S_Async, S_NotFA} : calls < MaxKernelCalls /\ EvolveScoped(<<s>>)
  \/ Export
  \/ \E version \in Versions : Load(version)

SpecKernel == Init /\ [][NextKernel]_vars

(***************************************************************************)
(* Actions: the IBLM facade over a UserKernel                              *)
(***************************************************************************)
LegacyState ==
  [rules |-> rules, _interaction_logs |-> _interaction_logs,
   _pending_signals |-> _pending_signals,
   _processed_registry |-> _processed_registry, profile |-> profile,
   style_vector |-> style_vector, metadata |-> metadata,
   rules_added |-> rules_added, uuid |-> uuid,
   _interaction_count |-> _interaction_count,
   _total_observations |-> _total_observations,
   _total_evolutions |-> _total_evolutions]

SetLegacy(L) ==
  /\ rules' = L.rules
  /\ _interaction_logs' = L._interaction_logs
  /\ _pending_signals' = L._pending_signals
  /\ _processed_registry' = L._processed_registry
  /\ profile' = L.profile
  /\ style_vector' = L.style_vector
  /\ metadata' = L.metadata
  /\ rules_added' = L.rules_added
  /\ uuid' = L.uuid
  /\ _interaction_count' = L._interaction_count
  /\ _total_observations' = L._total_observations
  /\ _total_evolutions' = L._total_evolutions

\* the state a call on the facade leaves alone
outsideLegacy ==
  <<scoped_rules, hypotheses, context_nodes, archive, now, streak, kernelVars,
    threadVars>>

\* brain.observe(user_input, ai_output, evolve)
Observe(x, evolve) ==
  /\ calls < MaxObserveCalls
  /\ \E r \in {observe(LegacyState, x[1], x[2], evolve, now)} :
       /\ SetLegacy(r.L)
       /\ lastCall' = [op |-> "observe", user_input |-> x[1],
                       ai_output |-> x[2], result |-> r.result]
  /\ calls' = calls + 1
  /\ UNCHANGED outsideLegacy

\* brain.kernel.log_interaction(user_input, ai_output)
LogInteraction(x) ==
  /\ calls < MaxObserveCalls
  /\ \E r \in {log_interaction(LegacyState, x[1], x[2])} :
       /\ SetLegacy(r.L)
       /\ lastCall' = [op |-> "log_interaction", user_input |-> x[1],
                       ai_output |-> x[2], result |-> [log_id |-> r.log_id]]
  /\ calls' = calls + 1
  /\ UNCHANGED outsideLegacy

\* brain.evolve()
Evolve ==
  /\ calls < MaxObserveCalls
  /\ \E L \in {IBLM_evolve(LegacyState, now)} : SetLegacy(L)
  /\ lastCall' = [op |-> "evolve"]
  /\ calls' = calls + 1
  /\ UNCHANGED outsideLegacy

\* brain.garbage_collect()
GarbageCollect ==
  /\ calls < MaxObserveCalls
  /\ \E L \in {IBLM_garbage_collect(LegacyState, now)} : SetLegacy(L)
  /\ lastCall' = [op |-> "garbage_collect"]
  /\ calls' = calls + 1
  /\ UNCHANGED outsideLegacy

\* brain.teach(instruction, category)
Teach(instruction, category) ==
  /\ calls < MaxObserveCalls
  /\ \E L \in {teach(LegacyState, instruction, category, now)} : SetLegacy(L)
  /\ lastCall' = [op |-> "teach", instruction |-> instruction,
                  result |-> IF Len(rules') > Len(rules) THEN uuid
                             ELSE rules[FirstSimilarIndex(rules,
                                    Rule(uuid, teach_category_map(category),
                                         "Always apply", instruction,
                                         900000, 1, now))].rule_id]
  /\ calls' = calls + 1
  /\ UNCHANGED outsideLegacy

\* brain = IBLM.from_dict(data), the restored facade replacing the one in use
FromDict(data) ==
  /\ calls < MaxObserveCalls
  /\ \E L \in {from_dict(data, uuid)} : SetLegacy(L)
  /\ lastCall' = [op |-> "from_dict"]
  /\ calls' = calls + 1
  /\ UNCHANGED outsideLegacy

NextObserve ==
  \/ \E x \in Interactions : \E evolve \in {<<>>, <<FALSE>>} : Observe(x, evolve)
  \/ \E x \in Interactions : LogInteraction(x)
  \/ Evolve
  \/ GarbageCollect
  \/ \E data \in Payloads : FromDict(data)
  \/ Teach(I_AlwaysTS, "preference")
  \/ Tick

SpecObserve == Init /\ [][NextObserve]_vars

(***************************************************************************)
(* Actions: threads calling the ScopedKernel                               *)
(***************************************************************************)
\* the state no statement of these methods touches
outsideThreads ==
  <<scoped_rules, hypotheses, context_nodes, archive, now, streak, facts,
    active_project, _metrics, legacyVars, disk, names>>

\* thread t calls a method whose first statement is first, with the locals
\* it starts with
ThreadCall(t, op, first, locals) ==
  /\ pc[t] = Idle
  /\ calls < MaxThreadCalls
  /\ calls' = calls + 1
  /\ lastCall' = [op |-> op, thread |-> t]
  /\ pc' = [pc EXCEPT ![t] = first]
  /\ frame' = [frame EXCEPT ![t] = locals]

Goto(t, stmt) == pc' = [pc EXCEPT ![t] = stmt]

CallAddGoal(t) ==
  /\ ThreadCall(t, "add_goal", "add_goal:acquire", NoFrame)
  /\ UNCHANGED <<_lock, scoped_interaction_logs, scoped_processed_registry,
                 goals, saved, uuid, outsideThreads>>

CallGarbageCollect(t) ==
  /\ ThreadCall(t, "garbage_collect", "garbage_collect:acquire", NoFrame)
  /\ UNCHANGED <<_lock, scoped_interaction_logs, scoped_processed_registry,
                 goals, saved, uuid, outsideThreads>>

\* log = InteractionLog(log_id=str(uuid.uuid4())[:8], ...)
CallLogInteraction(t, x) ==
  /\ ThreadCall(t, "log_interaction", "log_interaction:check",
                [NoFrame EXCEPT !.log_id = uuid,
                                !.content_hash = content_hash(x[1], x[2])])
  /\ uuid' = uuid + 1
  /\ UNCHANGED <<_lock, scoped_interaction_logs, scoped_processed_registry,
                 goals, saved, outsideThreads>>

CallGetActiveGoals(t) ==
  /\ ThreadCall(t, "get_active_goals", "get_active_goals:iterate", NoFrame)
  /\ UNCHANGED <<_lock, scoped_interaction_logs, scoped_processed_registry,
                 goals, saved, uuid, outsideThreads>>

CallGetPendingHypotheses(t) ==
  /\ ThreadCall(t, "get_pending_hypotheses", "get_pending_hypotheses:iterate", NoFrame)
  /\ UNCHANGED <<_lock, scoped_interaction_logs, scoped_processed_registry,
                 goals, saved, uuid, outsideThreads>>

CallExport(t) ==
  /\ ThreadCall(t, "export", "export:read", NoFrame)
  /\ UNCHANGED <<_lock, scoped_interaction_logs, scoped_processed_registry,
                 goals, saved, uuid, outsideThreads>>

\* self._acquire_lock()
AcquireLock(t) ==
  /\ pc[t] \in DOMAIN AfterAcquire
  /\ CanAcquire(_lock, t)
  /\ _lock' = acquire(_lock, t)
  /\ Goto(t, AfterAcquire[pc[t]])
  /\ UNCHANGED <<frame, scoped_interaction_logs, scoped_processed_registry,
                 goals, saved, uuid, calls, lastCall, outsideThreads>>

\* finally: self._release_lock(), and the method returns or re-raises
ReleaseLock(t) ==
  /\ pc[t] \in Finally
  /\ _lock' = release(_lock)
  /\ Goto(t, Idle)
  /\ UNCHANGED <<frame, scoped_interaction_logs, scoped_processed_registry,
                 goals, saved, uuid, calls, lastCall, outsideThreads>>

\* add_goal: self.goals[goal.goal_id] = goal
AddGoalStore(t) ==
  /\ pc[t] = "add_goal:store"
  /\ goals' = Append(goals, UserGoal(uuid, "Write clean, maintainable code", <<"Python">>))
  /\ uuid' = uuid + 1
  /\ Goto(t, "add_goal:finally")
  /\ UNCHANGED <<_lock, frame, scoped_interaction_logs, scoped_processed_registry,
                 saved, calls, lastCall, outsideThreads>>

\* the dict a comprehension of the method at stmt iterates over
IteratedSize(stmt) ==
  IF stmt \in {"garbage_collect:iterate", "garbage_collect:iterating"}
    THEN Len(scoped_interaction_logs)
  ELSE IF stmt \in {"get_active_goals:iterate", "get_active_goals:iterating"}
    THEN Len(goals)
  ELSE IF stmt \in {"query_scoped_rules:iterate", "query_scoped_rules:iterating"}
    THEN Len(scoped_rules)
  ELSE Len(hypotheses)

Iterating ==
  [stmt \in {"garbage_collect:iterate", "get_active_goals:iterate",
             "get_pending_hypotheses:iterate", "query_scoped_rules:iterate"} |->
     IF stmt = "garbage_collect:iterate" THEN "garbage_collect:iterating"
     ELSE IF stmt = "get_active_goals:iterate" THEN "get_active_goals:iterating"
     ELSE IF stmt = "query_scoped_rules:iterate" THEN "query_scoped_rules:iterating"
     ELSE "get_pending_hypotheses:iterating"]

\* iter(d.values()): the iterator remembers the dict's size
Iterate(t) ==
  /\ pc[t] \in DOMAIN Iterating
  /\ frame' = [frame EXCEPT ![t].size = IteratedSize(pc[t])]
  /\ Goto(t, Iterating[pc[t]])
  /\ UNCHANGED <<_lock, scoped_interaction_logs, scoped_processed_registry,
                 goals, saved, uuid, calls, lastCall, outsideThreads>>

\* the iteration ends: "RuntimeError: dictionary changed size during
\* iteration" if the dict was written to meanwhile
Iterated(t) ==
  /\ pc[t] \in {Iterating[stmt] : stmt \in DOMAIN Iterating}
  /\ \E changed \in {IteratedSize(pc[t]) # frame[t].size} :
       /\ frame' = [frame EXCEPT ![t].raised = changed]
       /\ Goto(t, IF pc[t] = "garbage_collect:iterating"
                    THEN (IF changed THEN "garbage_collect:finally"
                                     ELSE "garbage_collect:delete")
                  ELSE IF pc[t] = "query_scoped_rules:iterating"
                    THEN "query_scoped_rules:finally"
                    ELSE Idle)
  /\ UNCHANGED <<_lock, scoped_interaction_logs, scoped_processed_registry,
                 goals, saved, uuid, calls, lastCall, outsideThreads>>

\* garbage_collect: del self._interaction_logs[log.log_id] for the processed logs
GarbageCollectDelete(t) ==
  /\ pc[t] = "garbage_collect:delete"
  /\ scoped_interaction_logs' =
       SelectSeq(scoped_interaction_logs, LAMBDA log : ~log.processed)
  /\ Goto(t, "garbage_collect:finally")
  /\ UNCHANGED <<_lock, frame, scoped_processed_registry, goals, saved, uuid,
                 calls, lastCall, outsideThreads>>

\* log_interaction: if self._processed_registry.is_processed(...): return None
LogInteractionCheck(t) ==
  /\ pc[t] = "log_interaction:check"
  /\ Goto(t, IF frame[t].content_hash \in scoped_processed_registry
               THEN Idle ELSE "log_interaction:store")
  /\ UNCHANGED <<_lock, frame, scoped_interaction_logs, scoped_processed_registry,
                 goals, saved, uuid, calls, lastCall, outsideThreads>>

\* log_interaction: self._interaction_logs[log.log_id] = log
LogInteractionStore(t) ==
  /\ pc[t] = "log_interaction:store"
  /\ scoped_interaction_logs' =
       Append(scoped_interaction_logs,
              [log_id |-> frame[t].log_id, content_hash |-> frame[t].content_hash,
               processed |-> FALSE])
  /\ Goto(t, "log_interaction:register")
  /\ UNCHANGED <<_lock, frame, scoped_processed_registry, goals, saved, uuid,
                 calls, lastCall, outsideThreads>>

\* log_interaction: self._processed_registry.register(log.content_hash)
LogInteractionRegister(t) ==
  /\ pc[t] = "log_interaction:register"
  /\ scoped_processed_registry' = scoped_processed_registry \cup {frame[t].content_hash}
  /\ Goto(t, Idle)
  /\ UNCHANGED <<_lock, frame, scoped_interaction_logs, goals, saved, uuid,
                 calls, lastCall, outsideThreads>>

\* export: the dict built from the kernel's maps
ExportRead(t) ==
  /\ pc[t] = "export:read"
  /\ saved' = <<export(KernelFields)>>
  /\ Goto(t, Idle)
  /\ UNCHANGED <<_lock, frame, scoped_interaction_logs, scoped_processed_registry,
                 goals, uuid, calls, lastCall, outsideThreads>>

\* thread t calls kernel.query_scoped_rules(active_context)
CallQueryScopedRules(t) ==
  /\ ThreadCall(t, "query_scoped_rules", "query_scoped_rules:acquire", NoFrame)
  /\ UNCHANGED <<_lock, scoped_interaction_logs, scoped_processed_registry,
                 goals, saved, uuid, outsideThreads>>

\* thread t calls compiler.force_scoped_rule(...)
CallForceScopedRule(t) ==
  /\ ThreadCall(t, "force_scoped_rule", "force_scoped_rule:store", NoFrame)
  /\ UNCHANGED <<_lock, scoped_interaction_logs, scoped_processed_registry,
                 goals, saved, uuid, outsideThreads>>

\* thread t calls compiler.evolve_scoped([signal])
CallEvolveScoped(t) ==
  /\ ThreadCall(t, "evolve_scoped", "evolve_scoped:run", NoFrame)
  /\ UNCHANGED <<_lock, scoped_interaction_logs, scoped_processed_registry,
                 goals, saved, uuid, outsideThreads>>

\* the state a compiler statement leaves alone
outsideCompilerThread ==
  <<_lock, frame, scoped_interaction_logs, scoped_processed_registry, goals,
    saved, calls, lastCall, now, streak, facts, active_project, _metrics,
    legacyVars, disk, names>>

\* force_scoped_rule: self.kernel.scoped_rules[rule.rule_id] = rule
ForceScopedRuleStore(t) ==
  /\ pc[t] = "force_scoped_rule:store"
  /\ \E K \in {force_scoped_rule(KernelState, T_Async, <<"Python">>, "lang_python")} :
       SetKernel(K)
  /\ Goto(t, Idle)
  /\ UNCHANGED outsideCompilerThread

\* evolve_scoped: its writes to kernel.context_nodes, kernel.hypotheses and
\* kernel.scoped_rules, for one signal
EvolveScopedRun(t) ==
  /\ pc[t] = "evolve_scoped:run"
  /\ \E K \in {evolve_scoped(KernelState, <<S_UseTS>>, now)} : SetKernel(K)
  /\ Goto(t, Idle)
  /\ UNCHANGED outsideCompilerThread

NextLock ==
  \E t \in Threads :
    \/ CallQueryScopedRules(t)
    \/ CallForceScopedRule(t)
    \/ CallEvolveScoped(t)
    \/ ForceScopedRuleStore(t)
    \/ EvolveScopedRun(t)
    \/ CallAddGoal(t)
    \/ CallGarbageCollect(t)
    \/ \E x \in {<<U_Hello, "hi">>, <<U_Prefer, "ok">>} : CallLogInteraction(t, x)
    \/ CallGetActiveGoals(t)
    \/ CallGetPendingHypotheses(t)
    \/ CallExport(t)
    \/ AcquireLock(t)
    \/ ReleaseLock(t)
    \/ AddGoalStore(t)
    \/ Iterate(t)
    \/ Iterated(t)
    \/ GarbageCollectDelete(t)
    \/ LogInteractionCheck(t)
    \/ LogInteractionStore(t)
    \/ LogInteractionRegister(t)
    \/ ExportRead(t)

SpecLock == Init /\ [][NextLock]_vars

(***************************************************************************)
(* Actions: threads calling observe on one IBLM facade                     *)
(*                                                                         *)
(* observe and evolve take no lock; a thread may be switched out between   *)
(* any two of the statements below.                                        *)
(***************************************************************************)
outsideRace ==
  <<scoped_rules, hypotheses, context_nodes, archive, now, streak, kernelVars,
    _lock, scoped_interaction_logs, scoped_processed_registry, disk, names>>

\* thread t calls brain.observe(x[1], x[2])
CallObserve(t, x) ==
  /\ ThreadCall(t, "observe", "observe:log_interaction", [NoFrame EXCEPT !.x = x])
  /\ UNCHANGED <<legacyVars, uuid, outsideRace>>

\* observe: the inputs are validated; log_id = self.kernel.log_interaction(...)
ObserveLog(t) ==
  /\ pc[t] = "observe:log_interaction"
  /\ \E r \in {log_interaction(LegacyState, _validate_input(frame[t].x[1]),
                               _validate_input(frame[t].x[2]))} :
       /\ SetLegacy(r.L)
       /\ frame' = [frame EXCEPT ![t].log_id = r.log_id]
       /\ Goto(t, IF r.log_id = NoId THEN Idle ELSE "observe:add_signals")
  /\ UNCHANGED <<calls, lastCall, outsideRace>>

\* observe: result = self.observer.observe(...); the signals are added to
\* the kernel; the two counters are incremented
ObserveAddSignals(t) ==
  /\ pc[t] = "observe:add_signals"
  /\ SetLegacy([LegacyState EXCEPT
                  !._pending_signals =
                     @ \o InteractionObserver_observe(_validate_input(frame[t].x[1]),
                                                      _validate_input(frame[t].x[2])),
                  !._interaction_count = @ + 1,
                  !._total_observations = @ + 1])
  /\ Goto(t, "evolve:get_pending_signals")
  /\ UNCHANGED <<frame, calls, lastCall, outsideRace>>

\* evolve: signals = self.kernel.get_pending_signals()
EvolveGetPending(t) ==
  /\ pc[t] = "evolve:get_pending_signals"
  /\ frame' = [frame EXCEPT ![t].signals = _pending_signals]
  /\ Goto(t, "evolve:compile")
  /\ UNCHANGED <<legacyVars, uuid, calls, lastCall, outsideRace>>

\* LogicCompiler.evolve(signals) up to kernel.garbage_collect(); with no
\* signal it returns at once
EvolveCompile(t) ==
  /\ pc[t] = "evolve:compile"
  /\ IF frame[t].signals = <<>>
       THEN UNCHANGED <<legacyVars, uuid>> /\ Goto(t, "evolve:count")
       ELSE /\ \E L \in {EvolveSteps(LegacyState, frame[t].signals, now)} : SetLegacy(L)
            /\ Goto(t, "evolve:clear_pending_signals")
  /\ UNCHANGED <<frame, calls, lastCall, outsideRace>>

\* LogicCompiler.evolve: self.kernel.clear_pending_signals()
EvolveClear(t) ==
  /\ pc[t] = "evolve:clear_pending_signals"
  /\ SetLegacy([LegacyState EXCEPT !._pending_signals = <<>>])
  /\ Goto(t, "evolve:count")
  /\ UNCHANGED <<frame, calls, lastCall, outsideRace>>

\* evolve: self._total_evolutions += 1; observe: the automatic garbage
\* collection, and the call returns
EvolveCount(t) ==
  /\ pc[t] = "evolve:count"
  /\ \E L \in {[LegacyState EXCEPT !._total_evolutions = @ + 1]} :
       SetLegacy(IF L._interaction_count >= gc_threshold
                   THEN IBLM_garbage_collect(L, now) ELSE L)
  /\ Goto(t, Idle)
  /\ UNCHANGED <<frame, calls, lastCall, outsideRace>>

NextRace ==
  \E t \in Threads :
    \/ \E x \in {<<U_Hello, "hi">>, <<U_Prefer, "ok">>, <<U_Notebooks, "sure">>} :
         CallObserve(t, x)
    \/ ObserveLog(t)
    \/ ObserveAddSignals(t)
    \/ EvolveGetPending(t)
    \/ EvolveCompile(t)
    \/ EvolveClear(t)
    \/ EvolveCount(t)

SpecRace == Init /\ [][NextRace]_vars

(***************************************************************************)
(* Actions: the scientific-memory pipeline                                 *)
(***************************************************************************)
S_Async2 == Signal("PREFERENCE", T_Async2, 80)
S_CorrectAsync2 == Signal("CORRECTION", T_Async2, 80)
S_AvoidAsync2 == Signal("AVERSION", T_Async2, 80)
S_AsyncLower == Signal("PREFERENCE", T_AsyncLower, 80)

ScienceSignalLists ==
  {<<S_Async>>, <<S_Async2>>, <<S_CorrectAsync2>>, <<S_AvoidAsync2>>,
   <<S_AsyncLower>>, <<S_UseTS>>, <<S_Async, S_Async>>, <<S_Async, S_Async2>>}

\* ScopedCompiler.scientific_evolve(signals)
ScientificEvolve(signals) ==
  /\ calls < MaxCalls
  /\ \E K \in {scientific_evolve(KernelState, signals)} :
        /\ SetKernel(K)
        /\ lastCall' = [op |-> "scientific_evolve", signals |-> signals,
                        report |-> K.report]
  /\ calls' = calls + 1
  /\ streak' = NoStreak
  /\ UNCHANGED <<now, outsideCompiler>>

NextScience ==
  \/ \E signals \in ScienceSignalLists : ScientificEvolve(signals)
  \/ \E f \in ForcedRules : ForceScopedRule(f[1], f[2], f[3])

SpecScience == Init /\ [][NextScience]_vars

(***************************************************************************)
(* Actions: rules added to the kernel and prompts generated from it        *)
(***************************************************************************)
MaxInjectAdds == 6
MaxPromptSetup == 2

\* rules a caller builds and adds, as ScopedKernel.load and the tests do
InjectTemplates ==
  {[content |-> T_Async, scope_path |-> <<"python">>,
    target_node |-> "lang_python", weight |-> 50, confidence |-> 85,
    state |-> "ESTABLISHED"],
   [content |-> T_Tabs, scope_path |-> <<>>,
    target_node |-> "global", weight |-> 20, confidence |-> 90,
    state |-> "ESTABLISHED"],
   [content |-> T_Async2, scope_path |-> <<"Python">>,
    target_node |-> "lang_python", weight |-> 50, confidence |-> 30,
    state |-> "HYPOTHESIS"]}

Queries == {Q_Python, Q_FastAPI, Q_Hello}

\* generate_system_prompt(kernel, user_query)
GenerateSystemPrompt(user_query) ==
  /\ lastCall' = [op |-> "generate_system_prompt", user_query |-> user_query,
                  result |-> generate_system_prompt(
                               [scoped_rules |-> scoped_rules, goals |-> goals,
                                facts |-> facts], user_query)]
  /\ UNCHANGED <<scoped_rules, hypotheses, context_nodes, archive, uuid, now,
                 calls, streak, kernelVars, legacyVars, threadVars>>

NextInject ==
  \/ \E tpl \in InjectTemplates : calls < MaxInjectAdds /\ AddScopedRule(tpl)
  \/ calls < MaxPromptSetup /\ AddGoal("Write clean, maintainable code", <<"Python">>)
  \/ \E content \in {"User types fast", "write clean, maintainable code"} :
        calls < MaxPromptSetup /\ AddFact(content, <<>>)
  \/ \E user_query \in Queries : GenerateSystemPrompt(user_query)

SpecInject == Init /\ [][NextInject]_vars

(***************************************************************************)
(* Actions: goals, adaptive_socratic and the prompt over time              *)
(***************************************************************************)
MaxGoals == 2
MaxSocraticRules == 1

\* the scope paths of the goals a caller adds
GoalScopes == {<<>>, <<"python">>, <<"FastAPI">>}

S_AsyncFA == Signal("PREFERENCE", T_AsyncFA, 80)

SocraticSignals == {S_Async, S_AsyncFA, S_UseTS}

\* ScopedCompiler.adaptive_socratic(signal, kernel.scoped_rules[i])
AdaptiveSocratic(signal, i) ==
  /\ calls < MaxKernelCalls
  /\ calls' = calls + 1
  /\ \E r \in {adaptive_socratic([scoped_rules |-> scoped_rules, goals |-> goals,
                                  uuid |-> uuid], signal, i, now)} :
        /\ scoped_rules' = r.K.scoped_rules
        /\ uuid' = r.K.uuid
        /\ lastCall' = [op |-> "adaptive_socratic", signal |-> signal,
                        conflicting_rule |-> scoped_rules[i],
                        result |-> r.result]
  /\ UNCHANGED <<hypotheses, context_nodes, archive, now, streak, kernelVars,
                 legacyVars, threadVars>>

NextSocratic ==
  \/ \E scope_path \in GoalScopes :
        Len(goals) < MaxGoals /\ AddGoal("Write clean, maintainable code", scope_path)
  \/ \E tpl \in InjectTemplates :
        /\ Len(scoped_rules) < MaxSocraticRules
        /\ calls < MaxKernelCalls
        /\ AddScopedRule(tpl)
  \/ \E signal \in SocraticSignals : \E i \in 1..Len(scoped_rules) :
        AdaptiveSocratic(signal, i)
  \/ \E user_query \in Queries : GenerateSystemPrompt(user_query)
  \/ Tick

SpecSocratic == Init /\ [][NextSocratic]_vars

(***************************************************************************)
(* Properties of the ScopedCompiler pipeline (checked under Spec)          *)
(***************************************************************************)
StateFor(confidence) ==
  IF confidence >= 80 THEN "ESTABLISHED"
  ELSE IF confidence >= 60 THEN "VALIDATING"
  ELSE IF confidence >= 40 THEN "SHADOW"
  ELSE IF confidence >= 20 THEN "HYPOTHESIS"
  ELSE "DEPRECATED"

\* C1: after any compiler step every rule of the kernel is in the state its
\* confidence dictates (>= 0.8 ESTABLISHED, [0.6, 0.8) VALIDATING,
\* [0.4, 0.6) SHADOW, [0.2, 0.4) HYPOTHESIS, < 0.2 DEPRECATED).
C1_StateMatchesConfidence ==
  \A i \in 1..Len(scoped_rules) :
     scoped_rules[i].state = StateFor(scoped_rules[i].confidence)

\* the evolve_scoped call that has just been made processed one signal
SingleSignalCall(step) ==
  /\ step.op = "evolve_scoped"
  /\ Len(step.signals) = 1

\* C2: scope isolation.  When a call processes a signal that validates or
\* rejects a rule r1, no rule r2 with another scope_path changes in
\* confidence, state, validation count, rejection count or weight.
C2_ScopeIsolation ==
  [][(calls' = calls + 1 /\ SingleSignalCall(lastCall')) =>
       \A i, j \in 1..Len(scoped_rules) :
          (/\ scoped_rules[i].scope_path # scoped_rules[j].scope_path
           /\ scoped_rules'[i].rejection_count + scoped_rules'[i].validation_count
                # scoped_rules[i].rejection_count + scoped_rules[i].validation_count
           /\ scoped_rules[i].scope_path
                = _detect_scope(lastCall'.signals[1]).scope_path)
          => scoped_rules'[j] = scoped_rules[j]]_vars

\* C4: in every reachable state the kernel holds at most max_rules scoped
\* rules, at most max_context_nodes context nodes and at most max_hypotheses
\* hypotheses.
C4_ResourceBounds ==
  /\ Len(scoped_rules) <= max_rules
  /\ Len(context_nodes) <= max_context_nodes
  /\ Len(hypotheses) <= max_hypotheses

\* the signal of the current streak is a PREFERENCE strong enough to be learnt
StreakOfPreference ==
  /\ streak.n >= 1
  /\ streak.signals[1].signal_type = "PREFERENCE"
  /\ streak.signals[1].confidence >= 30

\* C5: the same PREFERENCE signal fed four times, back to back, to an empty
\* kernel: after the first there is exactly one hypothesis, with validations
\* 0; after the fourth exactly one ScopedRule exists, promoted from it, with
\* confidence 0.8 and state ESTABLISHED.
C5_FourIdenticalSignals ==
  /\ (StreakOfPreference /\ streak.n = 1) =>
        /\ Len(hypotheses) = 1
        /\ hypotheses[1].validations = 0
  /\ (StreakOfPreference /\ streak.n = 4) =>
        /\ Len(scoped_rules) = 1
        /\ scoped_rules[1].promoted_from # NoId
        /\ scoped_rules[1].confidence = 80
        /\ scoped_rules[1].state = "ESTABLISHED"

\* C6: a single-signal evolve_scoped call creates a hypothesis if and only if
\* the signal validated no existing hypothesis and its confidence is at least
\* 0.3.
C6_HypothesisCreatedIff ==
  SingleSignalCall(lastCall) =>
    LET report == lastCall.report
        validated == report.hypotheses_validated + report.rules_promoted > 0
    IN  (report.hypotheses_created = 1)
          <=> (~validated /\ lastCall.signals[1].confidence >= 30)

\* C9: a batch call of evolve_scoped leaves the rules, the hypotheses (with
\* validations, rejections and validation_interactions) and the context
\* nodes as the same signals do when given one per call, back to back.
C9_BatchEqualsSequential ==
  [][(calls' = calls + 1 /\ lastCall'.op = "evolve_scoped"
        /\ Len(lastCall'.signals) = 2) =>
       \E K1 \in {evolve_scoped(KernelState, <<lastCall'.signals[1]>>, now)} :
         \E K2 \in {evolve_scoped(K1, <<lastCall'.signals[2]>>, now)} :
           /\ scoped_rules' = K2.scoped_rules
           /\ hypotheses' = K2.hypotheses
           /\ context_nodes' = K2.context_nodes]_vars

(***************************************************************************)
(* Properties of the rule store (checked under SpecQuery)                  *)
(***************************************************************************)
\* scope_path is a case-insensitive, in-order prefix of active_context
IsPrefixOf(scope_path, active_context) ==
  /\ Len(scope_path) <= Len(active_context)
  /\ \A i \in 1..Len(scope_path) :
        Lower(scope_path[i]) = Lower(active_context[i])

\* positions of the stored rules whose scope is a prefix of the context
Matching(active_context) ==
  {i \in 1..Len(scoped_rules) :
     IsPrefixOf(scoped_rules[i].scope_path, active_context)}

ReturnedIds == {lastCall.result[i].rule_id : i \in 1..Len(lastCall.result)}

\* C3 as claimed: query_scoped_rules with default arguments returns a rule
\* if and only if its scope_path is a case-insensitive, in-order prefix of
\* the active context; no matching rule is left out.
C3_ReturnsExactlyTheMatches ==
  lastCall.op = "query_scoped_rules" =>
    ReturnedIds = {scoped_rules[i].rule_id : i \in Matching(lastCall.active_context)}

\* C3 as amended: with default arguments (top_k = 10) the call returns only
\* rules whose scope_path is a case-insensitive, in-order prefix of the
\* active context; all of them when at most 10 match, and otherwise 10 of
\* them, none with a lower weight * confidence than a matching rule left out.
C3_ReturnsTopMatches ==
  lastCall.op = "query_scoped_rules" =>
    LET matching == Matching(lastCall.active_context)
        returned == {i \in 1..Len(scoped_rules) :
                       scoped_rules[i].rule_id \in ReturnedIds}
    IN  /\ returned \subseteq matching
        /\ Cardinality(ReturnedIds) = Len(lastCall.result)
        /\ \A k \in 1..Len(lastCall.result) :
              \E i \in returned : scoped_rules[i] = lastCall.result[k]
        /\ Len(lastCall.result) = Min(top_k, Cardinality(matching))
        /\ \A i \in returned, j \in matching \ returned :
              Score(scoped_rules[i]) >= Score(scoped_rules[j])

\* a query, in a context written in another case than the scopes, that more
\* than top_k rules match: rules of the scope Python/FastAPI and a rule of
\* the empty scope, which is the one left out
C3_Witness ==
  /\ lastCall.op = "query_scoped_rules"
  /\ lastCall.active_context = <<"PYTHON", "fastapi", "API">>
  /\ Cardinality(Matching(lastCall.active_context)) > top_k
  /\ Len(lastCall.result) = top_k
  /\ \E i \in Matching(lastCall.active_context) :
        /\ scoped_rules[i].scope_path = <<>>
        /\ scoped_rules[i].rule_id \notin ReturnedIds

\* C13: a call of add_scoped_rule, pruning included, removes no rule whose
\* confidence is at least 0.3.
C13_PruneKeepsConfidentRules ==
  [][\A i \in 1..Len(scoped_rules) :
       scoped_rules[i].confidence >= 30 =>
         \E j \in 1..Len(scoped_rules') :
            scoped_rules'[j].rule_id = scoped_rules[i].rule_id]_vars

\* C14: a call of add_scoped_rule on a kernel that holds max_rules rules or
\* more, and still does once _prune_scoped_rules has run, returns no rule id
\* (ResourceLimitError is raised) and leaves rules, archive and metrics as
\* they were.
C14_AddBeyondBoundRaises ==
  [][(/\ calls' = calls + 1
      /\ lastCall'.op = "add_scoped_rule"
      /\ Len(_prune_scoped_rules([scoped_rules |-> scoped_rules,
                                  archive |-> archive]).scoped_rules) >= max_rules)
       => (/\ lastCall'.result = <<>>
           /\ UNCHANGED <<scoped_rules, archive, _metrics>>)]_vars

(***************************************************************************)
(* Properties of export and load (checked under SpecKernel)                *)
(***************************************************************************)
\* C8: loading what a kernel has just exported yields a kernel equal to it
\* in scoped rules, context nodes, hypotheses, goals, facts, active project
\* and metrics.
C8_RoundTrip ==
  [][(calls' = calls + 1 /\ lastCall'.op = "load"
        /\ [saved[1] EXCEPT !.metrics_live = TRUE] = export(KernelFields)) =>
       UNCHANGED <<scoped_rules, context_nodes, hypotheses, goals, facts,
                   active_project, _metrics>>]_vars


\* major, minor and patch component of a version string
VersionParts(version) ==
  CASE version = "3.0.0" -> <<3, 0, 0>>
    [] version = "3.0.1" -> <<3, 0, 1>>
    [] version = "3.1.0" -> <<3, 1, 0>>
    [] version = "4.0.0" -> <<4, 0, 0>>

\* C19: loading a payload whose version differs from the current one ("3.0.0",
\* the version export writes) in the major component loads nothing: the
\* kernel in use stays as it is; a payload differing only in the minor or
\* patch component is loaded, the kernel holding the payload's rules, nodes
\* and hypotheses afterwards.
C19_MajorMismatchIsFatal ==
  [][(calls' = calls + 1 /\ lastCall'.op = "load") =>
       IF VersionParts(saved'[1].version)[1] # VersionParts(export(KernelFields).version)[1]
         THEN UNCHANGED <<scoped_rules, context_nodes, hypotheses, goals, facts,
                          active_project, _metrics>>
         ELSE /\ scoped_rules' = load(saved'[1]).scoped_rules
              /\ context_nodes' = load(saved'[1]).context_nodes
              /\ hypotheses' = load(saved'[1]).hypotheses]_vars

(***************************************************************************)
(* Properties of the IBLM facade (checked under SpecObserve)               *)
(***************************************************************************)
\* C7: observe(u, a) for an interaction whose content hash is already in
\* the processed registry changes no kernel state (logs, pending signals,
\* rules, registry, profile, style vector, metadata and metrics counters,
\* the facade's counters) and returns status "skipped"; log_interaction for
\* such an interaction returns None and stores no log.
C7_DuplicateIsNoOp ==
  [][/\ (/\ calls' = calls + 1
         /\ lastCall'.op = "observe"
         /\ content_hash(_validate_input(lastCall'.user_input),
                         _validate_input(lastCall'.ai_output))
              \in _processed_registry)
          => (UNCHANGED legacyVars /\ lastCall'.result.status = "skipped")
     /\ (/\ calls' = calls + 1
         /\ lastCall'.op = "log_interaction"
         /\ content_hash(lastCall'.user_input, lastCall'.ai_output)
              \in _processed_registry)
          => (UNCHANGED legacyVars /\ lastCall'.result.log_id = NoId)]_vars

\* a kernel that holds a rule and a log has just skipped the greeting sent
\* with a null byte, whose sanitized form is registered
C7_Witness ==
  /\ lastCall.op = "observe"
  /\ lastCall.user_input = U_HelloNul
  /\ lastCall.result.status = "skipped"
  /\ content_hash(U_Hello, "hi") \in _processed_registry
  /\ rules # <<>>
  /\ _interaction_logs # <<>>

(***************************************************************************)
(* Properties of the ScopedKernel under threads (checked under SpecLock)   *)
(***************************************************************************)
\* C10: a thread that is at a statement of a public ScopedKernel method
\* which reads or writes an internal map (log_interaction, get_active_goals,
\* get_pending_hypotheses and export included) owns the kernel's re-entrant
\* lock, and a thread that is in no method (it returned or raised) does not
\* own it.
C10_LockHeldForEveryAccess ==
  \A t \in Threads :
    /\ pc[t] \in MapAccess => _lock.owner = t
    /\ pc[t] = Idle => _lock.owner # t

\* C12: a thread at a ScopedCompiler statement that writes the kernel's
\* rule, hypothesis or context-node maps owns the kernel lock, and the rule
\* map a thread iterates over inside the locked query_scoped_rules has the
\* size it had when the iteration began.
C12_CompilerWritesUnderLock ==
  \A t \in Threads :
    /\ pc[t] \in {"force_scoped_rule:store", "evolve_scoped:run"} => _lock.owner = t
    /\ pc[t] = "query_scoped_rules:iterating" => Len(scoped_rules) = frame[t].size

(***************************************************************************)
(* Properties of concurrent observe calls (checked under SpecRace)         *)
(***************************************************************************)
\* what a kernel holds, identifiers aside
Outcome(L) ==
  [rules |-> AsSeq([k \in 1..Len(L.rules) |->
                      <<L.rules[k].condition, L.rules[k].action, L.rules[k].weight,
                        L.rules[k].source_count, L.rules[k].contradictions>>]),
   pending |-> L._pending_signals,
   logs |-> AsSeq([k \in 1..Len(L._interaction_logs) |->
                     <<L._interaction_logs[k].user_input,
                       L._interaction_logs[k].ai_output>>]),
   profile |-> L.profile, style_vector |-> L.style_vector,
   counters |-> <<L._interaction_count, L._total_observations, L._total_evolutions>>]

\* the facade after observe(x) and then observe(y), one after the other
OneAfterTheOther(x, y) ==
  observe(observe(NewFacade, x[1], x[2], <<>>, 0).L, y[1], y[2], <<>>, 0).L

\* C11: when two threads have each run one observe call on a new facade and
\* both calls have returned, the kernel is as if the two calls had run one
\* after the other, in one order or the other: every queued signal was
\* compiled once, none was lost and none compiled twice.
C11_ObserveIsAtomic ==
  (/\ calls = 2
   /\ \A t \in Threads : pc[t] = Idle /\ frame[t].x # <<>>)
    => Outcome(LegacyState) \in {Outcome(OneAfterTheOther(frame[1].x, frame[2].x)),
                                 Outcome(OneAfterTheOther(frame[2].x, frame[1].x))}


(***************************************************************************)
(* Properties of scientific_evolve (checked under SpecScience)             *)
(***************************************************************************)
\* the kernel after the first n signals of a scientific_evolve call
AfterSignals(signals, n) ==
  scientific_evolve(KernelState, SubSeq(signals, 1, n))

\* the requests of stats that signal raised against the rule rule_id
RequestsFor(stats, signal, rule_id) ==
  {n \in 1..Len(stats.collaboration_requests) :
     /\ stats.collaboration_requests[n].trigger_signal = signal
     /\ stats.collaboration_requests[n].conflicting_rule.rule_id = rule_id}

RuleLinesOf(lines) ==
  LET hs == {h \in 1..Len(lines) : lines[h] = "## VERIFIED BEHAVIORS"}
  IN  IF hs = {} THEN <<>>
      ELSE SubSeq(lines, (CHOOSE h \in hs : TRUE) + 1, Len(lines))

\* the scope detected for a query
DetectedScope(user_query) ==
  _detect_scope([content |-> user_query, project |-> None]).scope_path

\* C16: every rule line of a prompt produced by generate_system_prompt is the
\* line of a rule of the kernel that is in state ESTABLISHED and whose
\* scope_path is empty or a (case-insensitive) prefix of the scope detected
\* for the query; rules in another state or of another scope are not listed.
C16_OnlyEstablishedInScope ==
  [][(lastCall'.op = "generate_system_prompt" /\ scoped_rules' = scoped_rules) =>
       \A n \in 1..Len(RuleLinesOf(lastCall'.result)) :
         \E i \in 1..Len(scoped_rules) :
           /\ RuleLinesOf(lastCall'.result)[n] =
                <<"- [", scope_str(scoped_rules[i].scope_path), "] ",
                  scoped_rules[i].content>>
           /\ scoped_rules[i].state = "ESTABLISHED"
           /\ IsPrefixOf(scoped_rules[i].scope_path,
                         DetectedScope(lastCall'.user_query))]_vars

\* a prompt listing a rule while the kernel also holds a rule that is not
\* ESTABLISHED and an ESTABLISHED rule of another scope
C16_Witness ==
  /\ lastCall.op = "generate_system_prompt"
  /\ lastCall.user_query = Q_Hello
  /\ Len(RuleLinesOf(lastCall.result)) >= 1
  /\ \E i \in 1..Len(scoped_rules) : scoped_rules[i].state # "ESTABLISHED"
  /\ \E i \in 1..Len(scoped_rules) :
        /\ scoped_rules[i].state = "ESTABLISHED"
        /\ ~IsPrefixOf(scoped_rules[i].scope_path, DetectedScope(Q_Hello))

\* the ids of the rules listed in the prompt for a query, for a rule map
InjectedIds(rule_map, user_query) ==
  {r.rule_id : r \in {established_rules(rule_map, DetectedScope(user_query))[n] :
                        n \in 1..Len(established_rules(rule_map, DetectedScope(user_query)))}}

\* the step is an add_scoped_rule call that adds an ESTABLISHED rule whose
\* scope is a prefix of the scope detected for the query
AddsEstablishedInScope(user_query) ==
  /\ calls' = calls + 1
  /\ lastCall'.op = "add_scoped_rule"
  /\ scoped_rules' # <<>>
  /\ scoped_rules'[Len(scoped_rules')].rule_id = uuid
  /\ scoped_rules'[Len(scoped_rules')].state = "ESTABLISHED"
  /\ IsPrefixOf(scoped_rules'[Len(scoped_rules')].scope_path, DetectedScope(user_query))

C18_TeachCreatesEstablishedRule ==
  [][(calls' = calls + 1 /\ lastCall'.op = "teach") =>
       /\ \E i \in 1..Len(scoped_rules') :
             /\ scoped_rules'[i].content = lastCall'.instruction
             /\ scoped_rules'[i].confidence = 90
             /\ scoped_rules'[i].state = "ESTABLISHED"
       /\ hypotheses' = hypotheses]_vars


(***************************************************************************)
(* Properties of hypothesis promotion (checked under Spec)                 *)
(***************************************************************************)
\* the signal validates the stored hypothesis h: evolve_scoped finds h with
\* _find_matching_hypotheses and calls h.validate()
ReceivesValidation(h, signal) ==
  /\ h.state \in {"PENDING", "VALIDATING"}
  /\ cosine_similarity(signal.content, h.proposed_content) > 600
  /\ _signal_validates_hypothesis(signal, h)

\* the rules promoted from the hypothesis hid
PromotedFrom(rule_seq, hid) ==
  {i \in 1..Len(rule_seq) : rule_seq[i].promoted_from = hid}

\* C20: a hypothesis with p validations that receives k validating signals
\* in a row is PROMOTED if and only if p + k >= 3, at the signal that brings
\* the count to 3 and never earlier.  Per signal: a single-signal call whose
\* signal validates a stored hypothesis with p validations promotes it iff
\* p + 1 >= 3, and otherwise leaves it stored with p + 1 validations; in
\* every state a stored hypothesis has fewer than 3 validations and a
\* promoted rule records exactly 3.
C20_PromotedExactlyAtThree ==
  /\ [][(calls' = calls + 1 /\ SingleSignalCall(lastCall')) =>
          \A i \in 1..Len(hypotheses) :
            ReceivesValidation(hypotheses[i], lastCall'.signals[1]) =>
              LET h == hypotheses[i]
                  promoted == PromotedFrom(scoped_rules', h.hypothesis_id) # {}
                  j == HypIndex(hypotheses', h.hypothesis_id)
              IN  /\ PromotedFrom(scoped_rules, h.hypothesis_id) = {}
                  /\ promoted <=> (h.validations + 1 >= VALIDATION_THRESHOLD)
                  /\ promoted => j = 0
                  /\ j # 0 => hypotheses'[j].validations = h.validations + 1]_vars
  /\ [](/\ \A i \in 1..Len(hypotheses) :
              hypotheses[i].validations < VALIDATION_THRESHOLD
         /\ \A r \in 1..Len(scoped_rules) :
              scoped_rules[r].promoted_from # NoId =>
                scoped_rules[r].source_count = VALIDATION_THRESHOLD)

\* a single-signal call has just promoted a hypothesis at its third
\* validation, while another stored hypothesis it validated stays unpromoted
C20_Witness ==
  /\ SingleSignalCall(lastCall)
  /\ lastCall.report.rules_promoted >= 1
  /\ \E i \in 1..Len(scoped_rules) :
        /\ scoped_rules[i].promoted_from # NoId
        /\ scoped_rules[i].source_count = 3
  /\ \E j \in 1..Len(hypotheses) :
        /\ hypotheses[j].validations \in 1..2
        /\ ReceivesValidation(hypotheses[j], lastCall.signals[1])


\* the archive entries a step appends
NewArchiveEntries ==
  {archive'[n] : n \in (Len(archive) + 1)..Len(archive')}

\* C21: whenever a hypothesis with validations >= 3 is removed from the
\* active hypothesis map, a ScopedRule with its content and scope and with
\* promoted_from equal to its id has been added to the kernel's rules: a
\* promoted hypothesis is never dropped without its rule.
C21_PromotedLeavesRule ==
  [][\A e \in NewArchiveEntries :
       (e.entry_type = "hypothesis" /\ e.validations >= VALIDATION_THRESHOLD) =>
         /\ HypIndex(hypotheses', e.id) = 0
         /\ PromotedFrom(scoped_rules, e.id) = {}
         /\ \E r \in PromotedFrom(scoped_rules', e.id) :
              \A i \in 1..Len(hypotheses) :
                 hypotheses[i].hypothesis_id = e.id =>
                   /\ scoped_rules'[r].content = hypotheses[i].proposed_content
                   /\ scoped_rules'[r].scope_path = hypotheses[i].proposed_scope_path]_vars

\* a call has just removed a hypothesis that had reached 3 validations
C21_Witness ==
  /\ lastCall.op = "evolve_scoped"
  /\ archive # <<>>
  /\ archive[Len(archive)].entry_type = "hypothesis"
  /\ archive[Len(archive)].validations >= VALIDATION_THRESHOLD
  /\ HypIndex(hypotheses, archive[Len(archive)].id) = 0


\* the signal contradicts the stored hypothesis h: evolve_scoped finds h with
\* _find_matching_hypotheses, the signal does not validate it, and
\* h.reject() is called
ReceivesRejection(h, signal) ==
  /\ h.state \in {"PENDING", "VALIDATING"}
  /\ cosine_similarity(signal.content, h.proposed_content) > 600
  /\ ~_signal_validates_hypothesis(signal, h)
  /\ _signal_contradicts_hypothesis(signal, h)

\* the archive entries of a step written for hypothesis hid with this reason
ArchivedAs(hid, reason) ==
  {e \in NewArchiveEntries :
     e.entry_type = "hypothesis" /\ e.id = hid /\ e.reason = reason}

C23_ExpiredAtEndOfCall ==
  [][(calls' = calls + 1 /\ lastCall'.op = "evolve_scoped") =>
       /\ \A i \in 1..Len(hypotheses) :
            LET j == HypIndex(hypotheses', hypotheses[i].hypothesis_id)
            IN  j # 0 => hypotheses'[j].validation_interactions
                           = hypotheses[i].validation_interactions + 1
       /\ \A j \in 1..Len(hypotheses') :
            /\ ~(hypotheses'[j].expires_at # NoTime /\ now' > hypotheses'[j].expires_at)
            /\ hypotheses'[j].validation_interactions < INTERACTION_EXPIRY
       /\ \A e \in NewArchiveEntries :
            e.reason = "expired" => HypIndex(hypotheses', e.id) = 0]_vars


(***************************************************************************)
(* Properties of garbage collection (checked under SpecObserve)            *)
(***************************************************************************)
\* C24: after garbage_collect returns, every interaction log the kernel held
\* at the start of the call has been removed from RAM and has its content
\* hash in the processed registry (the hand-over to cold storage, where one
\* is configured, happens for the same logs).
C24_GarbageCollectClearsLogs ==
  [][(calls' = calls + 1 /\ lastCall'.op = "garbage_collect") =>
       \A i \in 1..Len(_interaction_logs) :
          /\ \A j \in 1..Len(_interaction_logs') :
               _interaction_logs'[j].log_id # _interaction_logs[i].log_id
          /\ content_hash(_interaction_logs[i].user_input,
                          _interaction_logs[i].ai_output)
                \in _processed_registry']_vars


\* C25: with automatic garbage collection enabled, garbage_collect runs
\* exactly once per gc_threshold non-skipped observations and is not run on
\* the observations in between: an observation that is not skipped runs it
\* once if it is number gc_threshold since the last collection, and not at
\* all otherwise.
C25_CollectsOncePerThreshold ==
  [][(/\ calls' = calls + 1
      /\ lastCall'.op = "observe"
      /\ lastCall'.result.status = "observed") =>
       metadata'.garbage_collections - metadata.garbage_collections
         = IF _interaction_count + 1 >= gc_threshold THEN 1 ELSE 0]_vars

\* the facade's own trigger: a non-skipped observation leaves the counter of
\* observations since the last IBLM.garbage_collect at 0 iff it was number
\* gc_threshold, and one higher otherwise
C25_FacadeTrigger ==
  [][(/\ calls' = calls + 1
      /\ lastCall'.op = "observe"
      /\ lastCall'.result.status = "observed") =>
       _interaction_count'
         = IF _interaction_count + 1 >= gc_threshold THEN 0
           ELSE _interaction_count + 1]_vars


(***************************************************************************)
(* Properties of goals and adaptive_socratic (checked under SpecSocratic)  *)
(***************************************************************************)
\* the goals the spec considers for a scope: the active goals whose
\* scope_path is a case-insensitive prefix of it, the empty path included
GoalsByPrefix(goal_seq, scope_path) ==
  SeqFilterOut(goal_seq,
    {j \in 1..Len(goal_seq) :
       ~(is_active(goal_seq[j]) /\ matches_context(goal_seq[j].scope_path, scope_path))})

\* the scopes _detect_scope gives for the signals and queries submitted
DetectedScopes ==
  {_detect_scope(signal).scope_path : signal \in SocraticSignals}
    \cup {DetectedScope(user_query) : user_query \in Queries}

\* C26: adaptive_socratic returns a CollaborationRequest and leaves the rule
\* unchanged if and only if severity > 8.0, where severity is the rule's
\* confidence times the highest decayed priority among the active goals
\* matching the signal's scope (5 when there is none); otherwise it lowers
\* the rule's confidence by 0.05 and returns nil.
C26_AsksIffSevere ==
  [][(calls' = calls + 1 /\ lastCall'.op = "adaptive_socratic") =>
       LET rule == lastCall'.conflicting_rule
           i == RuleIndex(scoped_rules, rule.rule_id)
           matching == GoalsByPrefix(goals,
                         _detect_scope(lastCall'.signal).scope_path)
           severity == max_goal_priority(matching, now) * rule.confidence
       IN  IF severity > SOCRATIC_THRESHOLD
             THEN /\ lastCall'.result # <<>>
                  /\ scoped_rules' = scoped_rules
             ELSE /\ lastCall'.result = <<>>
                  /\ scoped_rules'[i].confidence = rule.confidence - 5]_vars

\* the threshold rule of adaptive_socratic over the goals get_active_goals
\* returns to it
C26_AsksIffSevereForReturnedGoals ==
  [][(calls' = calls + 1 /\ lastCall'.op = "adaptive_socratic") =>
       LET rule == lastCall'.conflicting_rule
           i == RuleIndex(scoped_rules, rule.rule_id)
           returned == get_active_goals(goals,
                         _detect_scope(lastCall'.signal).scope_path)
           severity == max_goal_priority(returned, now) * rule.confidence
       IN  IF severity > SOCRATIC_THRESHOLD
             THEN /\ lastCall'.result # <<>>
                  /\ Len(lastCall'.result[1].proposed_options) = 3
                  /\ scoped_rules' = scoped_rules
             ELSE /\ lastCall'.result = <<>>
                  /\ scoped_rules'[i].confidence = rule.confidence - 5
                  /\ \A j \in 1..Len(scoped_rules) : j # i =>
                        scoped_rules'[j] = scoped_rules[j]]_vars

\* C27: the goals considered for a scope, by adaptive_socratic and by
\* get_active_goals, are exactly the active goals whose scope_path is a
\* case-insensitive prefix of the detected scope, the empty path included; a
\* goal that only shares an element with the scope is not considered.
C27_GoalsByPrefixOnly ==
  \A scope_path \in DetectedScopes :
     LET considered == get_active_goals(goals, scope_path)
         byPrefix == GoalsByPrefix(goals, scope_path)
     IN  {considered[j].goal_id : j \in 1..Len(considered)}
           = {byPrefix[j].goal_id : j \in 1..Len(byPrefix)}


\* the goal lines of a prompt: those between the "## CORE DIRECTIVES" header
\* and the empty line that closes the section
GoalLinesOf(lines) ==
  LET hs == {h \in 1..Len(lines) : lines[h] = "## CORE DIRECTIVES (Laws - MUST FOLLOW)"}
  IN  IF hs = {} THEN <<>>
      ELSE LET h == CHOOSE x \in hs : TRUE
               e == CHOOSE x \in (h + 1)..Len(lines) :
                      /\ lines[x] = ""
                      /\ \A y \in (h + 1)..(x - 1) : lines[y] # ""
           IN  SubSeq(lines, h + 1, e - 1)

\* the goals of the kernel have pairwise different scope paths, so that a
\* goal line names its goal
GoalsToldApartByScope ==
  \A i, j \in 1..Len(goals) : i # j => goals[i].scope_path # goals[j].scope_path

\* C28: the goals listed by generate_system_prompt are the (at most five)
\* active goals for the scope with the highest decayed priority, in
\* descending order of decayed priority.
C28_GoalsByDecayedPriority ==
  (lastCall.op = "generate_system_prompt" /\ GoalsToldApartByScope) =>
    LET lines == GoalLinesOf(lastCall.result)
        considered == get_active_goals(goals, DetectedScope(lastCall.user_query))
        GoalOf(line) == CHOOSE j \in 1..Len(goals) :
                          scope_str(goals[j].scope_path) = line[2]
        listed == {GoalOf(lines[n]) : n \in 1..Len(lines)}
    IN  /\ Len(lines) = Min(5, Len(considered))
        /\ \A n, m \in 1..Len(lines) : n < m =>
              decay_priority(goals[GoalOf(lines[n])], now)
                >= decay_priority(goals[GoalOf(lines[m])], now)
        /\ \A c \in 1..Len(considered) :
              LET j == (CHOOSE x \in 1..Len(goals) :
                                             goals[x].goal_id = considered[c].goal_id)
              IN  j \notin listed =>
                    \A n \in 1..Len(lines) :
                       decay_priority(goals[j], now)
                         <= decay_priority(goals[GoalOf(lines[n])], now)

(***************************************************************************)
(* ColdStorage.archive_interactions / recompile_brain (cold_storage.py),   *)
(* ScopedKernel.recompile_brain (kernel.py)                                *)
(***************************************************************************)
MaxArchived == 2
MaxRecompileCalls == 4

\* InteractionLog(log_id, user_input, ai_output), other fields at their
\* defaults
InteractionLog(log_id, user_input, ai_output, timestamp) ==
  [log_id |-> log_id, user_input |-> user_input, ai_output |-> ai_output,
   timestamp |-> timestamp, signals_extracted |-> <<>>, processed |-> FALSE,
   compilation_target |-> None]

\* InteractionLog.to_dict
InteractionLog_to_dict(log) ==
  [log_id |-> log.log_id, user_input |-> log.user_input,
   ai_output |-> log.ai_output, timestamp |-> isoformat(log.timestamp),
   signals_extracted |-> log.signals_extracted, processed |-> log.processed,
   compilation_target |-> log.compilation_target,
   content_hash |-> content_hash(log.user_input, log.ai_output)]

\* InteractionLog.from_dict
InteractionLog_from_dict(data) ==
  [log_id |-> data.log_id, user_input |-> data.user_input,
   ai_output |-> data.ai_output, timestamp |-> fromisoformat(data.timestamp),
   signals_extracted |-> data.signals_extracted, processed |-> data.processed,
   compilation_target |-> data.compilation_target]

\* ColdStorage.archive_interactions(logs): one ArchiveEntry per log
archive_interactions(entries, logs, t) ==
  entries \o AsSeq([i \in 1..Len(logs) |->
                      [entry_type |-> "interaction", timestamp |-> isoformat(t),
                       data |-> InteractionLog_to_dict(logs[i])]])

\* ColdStorage.read_entries(entry_types=["interaction"])
read_interaction_entries(entries) ==
  SelectSeq(entries, LAMBDA e : e.entry_type = "interaction")

\* RecompileReport()
RecompileReport ==
  [entries_processed |-> 0, interactions_replayed |-> 0,
   signals_extracted |-> 0, hypotheses_created |-> 0, rules_promoted |-> 0,
   context_nodes_created |-> 0, errors |-> <<>>]

\* str(e) of the AttributeError raised by evolution.get(...): evolve_scoped
\* returns a ScopedEvolutionReport dataclass, which has no get()
NoGetError ==
  "Entry error: 'ScopedEvolutionReport' object has no attribute 'get'"

\* the signals of the observer as the compiler reads them: type, content,
\* confidence and metadata.get('project'), which the observer never sets
ObserverSignals(user_input, ai_output) ==
  Only({AsSeq([i \in 1..Len(sigs) |->
                 [signal_type |-> sigs[i].signal_type,
                  content |-> sigs[i].content,
                  confidence |-> sigs[i].confidence, project |-> None]]) :
          sigs \in {InteractionObserver_observe(user_input, ai_output)}})

\* one pass of the loop body of ColdStorage.recompile_brain for entry:
\* R.K is the kernel, R.report the RecompileReport, R.evolutions the reports
\* evolve_scoped returned so far
ReplayEntry(R, entry, t) ==
  LET log == InteractionLog_from_dict(entry.data) IN
  Only({Only({[K |-> K1,
               report |-> [R.report EXCEPT
                  !.entries_processed = @ + 1,
                  !.interactions_replayed = @ + 1,
                  !.signals_extracted = @ + Len(signals),
                  \* evolution.get("hypotheses_created", 0) raises before
                  \* any of the three counters is added to
                  !.errors = Append(@, NoGetError)],
               evolutions |-> Append(R.evolutions, K1.report)] :
          K1 \in {evolve_scoped(R.K, signals, t)}}) :
     signals \in {ObserverSignals(log.user_input, log.ai_output)}})

RECURSIVE ReplayFrom(_, _, _, _)
ReplayFrom(R, entries, n, t) ==
  IF n > Len(entries) THEN R
  ELSE ReplayFrom(ReplayEntry(R, entries[n], t), entries, n + 1, t)

\* ColdStorage.recompile_brain(kernel)
ColdStorage_recompile_brain(K, t) ==
  ReplayFrom([K |-> K, report |-> RecompileReport, evolutions |-> <<>>],
             read_interaction_entries(K.archive), 1, t)

\* ScopedKernel.recompile_brain (cold storage configured)
recompile_brain(K, t) ==
  ColdStorage_recompile_brain(
    [K EXCEPT !.scoped_rules = <<>>, !.hypotheses = <<>>,
              !.context_nodes = <<>>], t)

ArchivedInteractions ==
  {<<U_Hello, "hi">>, <<U_Prefer, "ok">>, <<U_Notebooks, "sure">>}

\* kernel.cold_storage.archive_interactions([InteractionLog(...)])
ArchiveInteractions(x) ==
  /\ Len(archive) < MaxArchived
  /\ archive' = archive_interactions(
                  archive, <<InteractionLog(uuid, x[1], x[2], now)>>, now)
  /\ uuid' = uuid + 1
  /\ lastCall' = [op |-> "archive_interactions", result |-> 1]
  /\ UNCHANGED <<scoped_rules, hypotheses, context_nodes, now, calls, streak,
                 outsideCompiler>>

\* ScopedKernel.recompile_brain()
RecompileBrain ==
  /\ calls < MaxRecompileCalls
  /\ calls' = calls + 1
  /\ \E R \in {recompile_brain(KernelState, now)} :
        /\ SetKernel(R.K)
        /\ lastCall' = [op |-> "recompile_brain", report |-> R.report,
                        evolutions |-> R.evolutions]
  /\ streak' = NoStreak
  /\ UNCHANGED <<now, outsideCompiler>>

NextRecompile ==
  \/ \E x \in ArchivedInteractions : ArchiveInteractions(x)
  \/ \E f \in ForcedRules : Len(scoped_rules) < 1 /\ ForceScopedRule(f[1], f[2], f[3])
  \/ RecompileBrain
  \/ Tick

SpecRecompile == Init /\ [][NextRecompile]_vars

RECURSIVE SumField(_, _, _)
SumField(reports, field, n) ==
  IF n = 0 THEN 0
  ELSE SumField(reports, field, n - 1) +
         (CASE field = "hypotheses_created" -> reports[n].hypotheses_created
            [] field = "rules_promoted" -> reports[n].rules_promoted
            [] field = "context_nodes_created" -> reports[n].context_nodes_created)

\* C29: recompile_brain replays every archived interaction entry; its report
\* has no errors, and its hypotheses_created, rules_promoted and
\* context_nodes_created are the sums of what the evolve_scoped calls of the
\* replay reported.
C29_RecompileReportSums ==
  [][(lastCall'.op = "recompile_brain" /\ calls' = calls + 1) =>
       LET report == lastCall'.report
           evolutions == lastCall'.evolutions
           n == Len(evolutions)
       IN  /\ report.entries_processed = Len(read_interaction_entries(archive))
           /\ n = report.entries_processed
           /\ report.errors = <<>>
           /\ report.hypotheses_created =
                SumField(evolutions, "hypotheses_created", n)
           /\ report.rules_promoted = SumField(evolutions, "rules_promoted", n)
           /\ report.context_nodes_created =
                SumField(evolutions, "context_nodes_created", n)]_vars

\* the kernel recompile_brain leaves is the replay's, whatever the report says
C29_KernelRebuilt ==
  [][(lastCall'.op = "recompile_brain" /\ calls' = calls + 1) =>
       LET evolutions == lastCall'.evolutions
           n == Len(evolutions)
       IN  /\ Len(hypotheses') + Len(scoped_rules') >=
                IF SumField(evolutions, "hypotheses_created", n) > 0
                  THEN 1 ELSE 0
           /\ lastCall'.report.hypotheses_created = 0
           /\ Len(lastCall'.report.errors) = n]_vars

(***************************************************************************)
(* ColdStorage._append_entries and _check_rotation (cold_storage.py),      *)
(* called by several threads                                               *)
(*                                                                         *)
(* ColdStorage holds no lock and _archive_and_delete_hypothesis calls      *)
(* archive_hypothesis outside the kernel's lock: a thread may be switched  *)
(* out between any two of the file operations below.  Every entry has the  *)
(* same size, the unit sizes are counted in.  What a thread writes stays   *)
(* in its buffer until the with block closes the file.                     *)
(***************************************************************************)
MaxAppends == 4
max_archive_size_bytes == 1

\* self.archive_path
archive_path == "history_archive.jsonl.gz"

\* f"{stem}_{timestamp}{suffix}" of _check_rotation at clock t (Path.stem
\* drops the last suffix only; the timestamp has the clock's resolution)
backup_name(t) == "history_archive.jsonl_" \o ToString(t) \o ".gz"

\* the inode a name of the directory stands for, 0 where there is no such file
Inode(name) ==
  IF \E n \in names : n.name = name
    THEN (CHOOSE n \in names : n.name = name).inode
  ELSE 0

\* Path.exists()
exists(name) == Inode(name) # 0

\* Path.rename(target): target is replaced where it exists
rename(name, target) ==
  {n \in names : n.name # name /\ n.name # target}
    \cup {[name |-> target, inode |-> Inode(name)]}

\* the locals of a thread in archive_hypothesis: the entries it appends, the
\* mode it chose and the file it has open
AppendFrame(entries) ==
  [entries |-> entries, mode |-> "", f |-> 0, raised |-> FALSE]

outsideStorage ==
  <<scoped_rules, hypotheses, context_nodes, archive, now, streak, kernelVars,
    legacyVars, _lock, scoped_interaction_logs, scoped_processed_registry>>

\* thread t calls cold_storage.archive_hypothesis(hypothesis, reason)
CallArchiveHypothesis(t) ==
  /\ pc[t] = Idle
  /\ calls < MaxAppends
  /\ calls' = calls + 1
  /\ lastCall' = [op |-> "archive_hypothesis", thread |-> t]
  /\ pc' = [pc EXCEPT ![t] = "_check_rotation:exists"]
  /\ frame' = [frame EXCEPT ![t] = AppendFrame(<<uuid>>)]
  /\ uuid' = uuid + 1
  /\ UNCHANGED <<disk, names, outsideStorage>>

\* the exception leaves archive_hypothesis: the entries were not written
Raise(t) ==
  /\ pc' = [pc EXCEPT ![t] = Idle]
  /\ frame' = [frame EXCEPT ![t].raised = TRUE]

\* _check_rotation: if not self.archive_path.exists(): return
CheckRotationExists(t) ==
  /\ pc[t] = "_check_rotation:exists"
  /\ Goto(t, IF exists(archive_path) THEN "_check_rotation:stat"
             ELSE "_append_entries:mode")
  /\ UNCHANGED <<frame, disk, names, uuid, calls, lastCall, outsideStorage>>

\* _check_rotation: size = self.archive_path.stat().st_size;
\* if size > self.max_archive_size_bytes (FileNotFoundError where the file
\* is gone)
CheckRotationStat(t) ==
  /\ pc[t] = "_check_rotation:stat"
  /\ IF ~exists(archive_path) THEN Raise(t)
     ELSE /\ Goto(t, IF Len(disk[Inode(archive_path)]) > max_archive_size_bytes
                       THEN "_check_rotation:rename"
                     ELSE "_append_entries:mode")
          /\ UNCHANGED frame
  /\ UNCHANGED <<disk, names, uuid, calls, lastCall, outsideStorage>>

\* _check_rotation: self.archive_path.rename(backup_path)
CheckRotationRename(t) ==
  /\ pc[t] = "_check_rotation:rename"
  /\ IF ~exists(archive_path) THEN Raise(t) /\ UNCHANGED names
     ELSE /\ names' = rename(archive_path, backup_name(now))
          /\ Goto(t, "_append_entries:mode")
          /\ UNCHANGED frame
  /\ UNCHANGED <<disk, uuid, calls, lastCall, outsideStorage>>

\* _append_entries: mode = 'at' if self.archive_path.exists() else 'wt'
AppendEntriesMode(t) ==
  /\ pc[t] = "_append_entries:mode"
  /\ frame' = [frame EXCEPT ![t].mode =
                 IF exists(archive_path) THEN "at" ELSE "wt"]
  /\ Goto(t, "_append_entries:open")
  /\ UNCHANGED <<disk, names, uuid, calls, lastCall, outsideStorage>>

\* _append_entries: gzip.open(self.archive_path, mode): the file is created
\* where there is none, and emptied where mode is 'wt'
AppendEntriesOpen(t) ==
  /\ pc[t] = "_append_entries:open"
  /\ IF ~exists(archive_path)
       THEN /\ disk' = Append(disk, <<>>)
            /\ names' = names \cup
                 {[name |-> archive_path, inode |-> Len(disk) + 1]}
            /\ frame' = [frame EXCEPT ![t].f = Len(disk) + 1]
     ELSE /\ disk' = IF frame[t].mode = "wt"
                       THEN [disk EXCEPT ![Inode(archive_path)] = <<>>]
                     ELSE disk
          /\ names' = names
          /\ frame' = [frame EXCEPT ![t].f = Inode(archive_path)]
  /\ Goto(t, "_append_entries:close")
  /\ UNCHANGED <<uuid, calls, lastCall, outsideStorage>>

\* what a file holds after data is written at its end ('at') or from the
\* position of a handle opened with 'wt', which is 0
written(content, mode, data) ==
  IF mode = "at" THEN content \o data
  ELSE data \o SubSeq(content, Len(data) + 1, Len(content))

\* _append_entries: the end of the with block writes the buffered lines to
\* the open file, under whatever name it has by now
AppendEntriesClose(t) ==
  /\ pc[t] = "_append_entries:close"
  /\ disk' = [disk EXCEPT ![frame[t].f] =
                written(@, frame[t].mode, frame[t].entries)]
  /\ Goto(t, Idle)
  /\ UNCHANGED <<frame, names, uuid, calls, lastCall, outsideStorage>>

\* time passes between two file operations
StorageTick ==
  /\ now < MaxTicks * TickHours
  /\ now' = now + TickHours
  /\ UNCHANGED <<scoped_rules, hypotheses, context_nodes, archive, uuid, calls,
                 lastCall, streak, outsideCompiler>>

NextStorage ==
  \/ \E t \in Threads :
       \/ CallArchiveHypothesis(t)
       \/ CheckRotationExists(t)
       \/ CheckRotationStat(t)
       \/ CheckRotationRename(t)
       \/ AppendEntriesMode(t)
       \/ AppendEntriesOpen(t)
       \/ AppendEntriesClose(t)
  \/ StorageTick

SpecStorage == Init /\ [][NextStorage]_vars

\* the same threads, each call made only when no other call is under way
NextStorageSerial ==
  \/ \E t \in Threads :
       \/ (\A u \in Threads : pc[u] = Idle) /\ CallArchiveHypothesis(t)
       \/ CheckRotationExists(t)
       \/ CheckRotationStat(t)
       \/ CheckRotationRename(t)
       \/ AppendEntriesMode(t)
       \/ AppendEntriesOpen(t)
       \/ AppendEntriesClose(t)
  \/ StorageTick

SpecStorageSerial == Init /\ [][NextStorageSerial]_vars

\* the entries held by the files of the directory
EntriesOnDisk ==
  UNION {{disk[n.inode][k] : k \in 1..Len(disk[n.inode])} : n \in names}

\* the entries of the calls still under way
EntriesInFlight ==
  UNION {{frame[t].entries[k] : k \in 1..Len(frame[t].entries)} :
           t \in {u \in Threads : pc[u] # Idle}}

\* every entry handed to archive_hypothesis so far
EntriesSubmitted == 1..(uuid - 1)

NoEntryLost ==
  \A e \in EntriesSubmitted : e \in EntriesOnDisk \/ e \in EntriesInFlight

\* a step that renames the archive file
Rotates == exists(archive_path) /\ Inode(archive_path)' # Inode(archive_path)
             /\ \E n \in names' : n.name # archive_path
                                    /\ n.inode = Inode(archive_path)

RotatesOnlyPastLimit ==
  Rotates => Len(disk[Inode(archive_path)]) > max_archive_size_bytes

\* C30: appends by several threads to one archive file behave as if made one
\* after the other: every entry handed in is in the archive file or in a
\* rotated file (no call fails, no entry is overwritten or dropped), and
\* the file is renamed only when it is over the size limit, so once per
\* crossing.
C30_AppendsSerialised ==
  /\ []NoEntryLost
  /\ [][RotatesOnlyPastLimit]_vars

\* made one after the other, the same calls lose nothing and rotate only
\* past the limit
C30_SerialAppends ==
  /\ []NoEntryLost
  /\ [][RotatesOnlyPastLimit]_vars
  /\ [](\A t \in Threads : pc[t] = Idle => ~frame[t].raised)

(***************************************************************************)
(* UserGoal.decay_priority and UserGoal.reinforce (models.py), with the    *)
(* clock moving in half days                                               *)
(***************************************************************************)
MaxHalfDays == 30
HalfDayHours == 12

GoalPriorities == {1, 3, 10}

\* UserGoal.reinforce() at clock t
UserGoal_reinforce(goal, t) == [goal EXCEPT !.last_reinforced = t]

\* kernel.add_goal(UserGoal(goal_id, content, priority=P))
AddGoalOfPriority(P) ==
  /\ goals = <<>>
  /\ goals' = <<[UserGoal(uuid, "Write clean, maintainable code", <<>>)
                   EXCEPT !.priority = P]>>
  /\ uuid' = uuid + 1
  /\ lastCall' = [op |-> "add_goal"]
  /\ UNCHANGED <<scoped_rules, hypotheses, context_nodes, archive, now, calls,
                 streak, facts, active_project, _metrics, saved, legacyVars,
                 threadVars>>

\* goal.decay_priority() for the i-th goal of the kernel
DecayPriority(i) ==
  /\ lastCall' = [op |-> "decay_priority", goal |-> goals[i],
                  result |-> decay_priority(goals[i], now)]
  /\ UNCHANGED <<scoped_rules, hypotheses, context_nodes, archive, uuid, now,
                 calls, streak, kernelVars, legacyVars, threadVars>>

\* goal.reinforce() for the i-th goal of the kernel
Reinforce(i) ==
  /\ goals' = [goals EXCEPT ![i] = UserGoal_reinforce(@, now)]
  /\ lastCall' = [op |-> "reinforce", goal |-> goals'[i]]
  /\ UNCHANGED <<scoped_rules, hypotheses, context_nodes, archive, uuid, now,
                 calls, streak, facts, active_project, _metrics, saved,
                 legacyVars, threadVars>>

\* half a day passes
HalfDay ==
  /\ now < MaxHalfDays * HalfDayHours
  /\ now' = now + HalfDayHours
  /\ UNCHANGED <<scoped_rules, hypotheses, context_nodes, archive, uuid, calls,
                 lastCall, streak, outsideCompiler>>

NextDecay ==
  \/ \E P \in GoalPriorities : AddGoalOfPriority(P)
  \/ \E i \in 1..Len(goals) : DecayPriority(i)
  \/ \E i \in 1..Len(goals) : Reinforce(i)
  \/ HalfDay

SpecDecay == Init /\ [][NextDecay]_vars

RECURSIVE HalfLifePower(_)
\* 0.5 ^ (d / 7) in millionths, rounded down, for d = half_days / 2 days
HalfLifePower(half_days) ==
  IF half_days >= 14 THEN HalfLifePower(half_days - 14) \div 2
  ELSE <<1000000, 951695, 905723, 861972, 820335, 780709, 742997, 707106,
         672950, 640443, 609506, 580064, 552044, 525378>>[half_days + 1]

\* max(1, floor(P * 0.5 ^ (d / H))) for the goal at clock t, d the time
\* since it was reinforced, in days and fractions of a day
DecayedExactly(goal, t) ==
  Max(1, (goal.priority
            * HalfLifePower((t - goal.last_reinforced) \div HalfDayHours))
           \div 1000000)

\* C31: decay_priority() is max(1, floor(P * 0.5 ^ (d / H))) for the time d
\* since the goal was reinforced, whole days or not; it is P right after
\* reinforce() and never below 1.
C31_DecayFollowsElapsedTime ==
  [][/\ (lastCall'.op = "decay_priority" /\ now' = now) =>
          /\ lastCall'.result = DecayedExactly(lastCall'.goal, now')
          /\ lastCall'.result >= 1
     /\ (lastCall'.op = "reinforce" /\ now' = now) =>
          decay_priority(lastCall'.goal, now') = lastCall'.goal.priority]_vars

\* what the code computes: the same formula over the whole days elapsed
C31_DecayFollowsWholeDays ==
  [][/\ (lastCall'.op = "decay_priority" /\ now' = now) =>
          /\ lastCall'.result =
               DecayedExactly(lastCall'.goal,
                 now' - ((now' - lastCall'.goal.last_reinforced) % HoursPerDay))
          /\ lastCall'.result >= 1
          /\ lastCall'.result <= lastCall'.goal.priority
     /\ (lastCall'.op = "reinforce" /\ now' = now) =>
          decay_priority(lastCall'.goal, now') = lastCall'.goal.priority]_vars

(***************************************************************************)
(* Hypotheses and the scope of the signal (checked under Spec)             *)
(***************************************************************************)
\* the hypothesis was advanced or rejected by the step: it was promoted,
\* archived as rejected, or its validations or rejections changed
AdvancedOrRejected(h) ==
  \/ PromotedFrom(scoped_rules', h.hypothesis_id) # {}
  \/ ArchivedAs(h.hypothesis_id, "rejected") # {}
  \/ \E j \in 1..Len(hypotheses') :
       /\ hypotheses'[j].hypothesis_id = h.hypothesis_id
       /\ \/ hypotheses'[j].validations # h.validations
          \/ hypotheses'[j].rejections # h.rejections

\* C32: a signal validates or rejects only hypotheses whose proposed scope
\* matches the scope detected for the signal (the proposed scope is that
\* scope or a prefix of it); a hypothesis proposed for another scope is
\* neither advanced nor rejected by the call.
C32_OnlyHypothesesOfTheScope ==
  [][(calls' = calls + 1 /\ SingleSignalCall(lastCall')) =>
       \A i \in 1..Len(hypotheses) :
          AdvancedOrRejected(hypotheses[i]) =>
            IsPrefixOf(hypotheses[i].proposed_scope_path,
                       _detect_scope(lastCall'.signals[1]).scope_path)]_vars

\* what selects the hypotheses is similarity of content alone
C32_OnlySimilarHypotheses ==
  [][(calls' = calls + 1 /\ SingleSignalCall(lastCall')) =>
       \A i \in 1..Len(hypotheses) :
          LET similar ==
                \/ ReceivesValidation(hypotheses[i], lastCall'.signals[1])
                \/ ReceivesRejection(hypotheses[i], lastCall'.signals[1])
          IN  /\ AdvancedOrRejected(hypotheses[i]) => similar
              /\ similar =>
                    \/ AdvancedOrRejected(hypotheses[i])
                    \/ ArchivedAs(hypotheses[i].hypothesis_id, "expired") # {}]_vars

\* the rules a step moved into state DEPRECATED from another state
MovedToDeprecated ==
  {i \in 1..Len(scoped_rules) :
     /\ scoped_rules[i].state # "DEPRECATED"
     /\ scoped_rules'[i].state = "DEPRECATED"}

\* C33: the rules_deprecated count scientific_evolve returns is the number
\* of rules its rejections moved into DEPRECATED from another state; the
\* rejection of a rule that was DEPRECATED already is not counted.
C33_DeprecatedCountedOnce ==
  [][(calls' = calls + 1 /\ lastCall'.op = "scientific_evolve"
        /\ Len(lastCall'.signals) = 1) =>
       lastCall'.report.rules_deprecated = Cardinality(MovedToDeprecated)]_vars

\* what the count is: the rejections after which the rule is DEPRECATED
C33_DeprecatedAfterRejection ==
  [][(calls' = calls + 1 /\ lastCall'.op = "scientific_evolve"
        /\ Len(lastCall'.signals) = 1) =>
       lastCall'.report.rules_deprecated =
         Cardinality({i \in 1..Len(scoped_rules) :
                        /\ scoped_rules'[i].rejection_count
                             = scoped_rules[i].rejection_count + 1
                        /\ scoped_rules'[i].state = "DEPRECATED"})]_vars

(***************************************************************************)
(* Resource limits of the legacy kernel (checked under SpecObserve)        *)
(***************************************************************************)
\* C34: the legacy kernel never holds more than max_interaction_logs
\* interaction logs nor more than max_pending_signals pending signals,
\* however many observations are made between evolve and garbage
\* collection runs.
C34_LogsAndSignalsBounded ==
  /\ Len(_interaction_logs) <= max_interaction_logs
  /\ Len(_pending_signals) <= max_pending_signals

\* what bounds them in the model is the number of calls alone: a call stores
\* at most one log and at most four signals
C34_GrowWithCalls ==
  /\ Len(_interaction_logs) <= calls
  /\ Len(_pending_signals) <= 4 * calls

(***************************************************************************)
(* Duplicates right after acceptance (checked under SpecObserve)           *)
(***************************************************************************)
\* the call recorded in c stored the interaction it was given
Accepted(c) ==
  \/ c.op = "log_interaction" /\ c.result.log_id # NoId
  \/ c.op = "observe" /\ c.result.status = "observed"

\* the call recorded in c was turned down as a duplicate
RejectedAsDuplicate(c) ==
  \/ c.op = "log_interaction" /\ c.result.log_id = NoId
  \/ c.op = "observe" /\ c.result.status = "skipped"

\* C35: once an interaction (u, a) has been accepted, the log_interaction or
\* observe call that follows it with the same (u, a) is rejected as a
\* duplicate, whether or not garbage collection has run in between.
C35_ImmediateDuplicateRejected ==
  [][(/\ calls' = calls + 1
      /\ Accepted(lastCall)
      /\ lastCall'.op \in {"log_interaction", "observe"}
      /\ lastCall'.user_input = lastCall.user_input
      /\ lastCall'.ai_output = lastCall.ai_output)
       => RejectedAsDuplicate(lastCall')]_vars

\* the legacy kernel's registry is written by nothing but from_dict:
\* log_interaction, observe, evolve, teach and garbage_collect leave it as
\* it is, so an accepted interaction is not registered by being accepted
C35_RegistryOnlyLoaded ==
  [][_processed_registry' # _processed_registry => lastCall'.op = "from_dict"]_vars

(***************************************************************************)
(* Concurrent log_interaction on the ScopedKernel (checked under SpecLock) *)
(***************************************************************************)
\* positions of the stored logs that carry the content hash h
LogsOfContent(h) ==
  {i \in DOMAIN scoped_interaction_logs : scoped_interaction_logs[i].content_hash = h}

\* C37: when threads call log_interaction concurrently with the same (user
\* input, AI output) pair, at most one of them obtains a log id, so at most
\* one log of that content is stored.
C37_OneLogPerContent ==
  \A i \in DOMAIN scoped_interaction_logs :
    Cardinality(LogsOfContent(scoped_interaction_logs[i].content_hash)) <= 1

\* what the unlocked method does keep: a stored log's hash is registered as
\* soon as the thread that stored it has run its register statement
C37_StoredThenRegistered ==
  \A i \in DOMAIN scoped_interaction_logs :
    \/ scoped_interaction_logs[i].content_hash \in scoped_processed_registry
    \/ \E t \in Threads :
         /\ pc[t] = "log_interaction:register"
         /\ frame[t].log_id = scoped_interaction_logs[i].log_id

(***************************************************************************)
(* Rules promoted from repeated signals                                    *)
(***************************************************************************)
\* C36: evolve_scoped never leaves the kernel holding two ScopedRules with
\* identical content and identical scope_path, however many times the same
\* signal is repeated.
C36_NoTwoRulesAlike ==
  \A i, j \in DOMAIN scoped_rules :
    (/\ scoped_rules[i].content = scoped_rules[j].content
     /\ scoped_rules[i].scope_path = scoped_rules[j].scope_path) => i = j

\* what does hold: every rule was promoted from a hypothesis of its own
\* (the repeats of a signal each leave a hypothesis, and each is promoted)
C36_OneRulePerHypothesis ==
  \A i, j \in DOMAIN scoped_rules :
    scoped_rules[i].promoted_from = scoped_rules[j].promoted_from => i = j

(***************************************************************************)
(* Expired hypotheses and promotion (checked under SpecExpiry)             *)
(***************************************************************************)
\* rules of the kernel after the step that were promoted from hypothesis id
\* by this step
PromotedNow(id) ==
  {j \in DOMAIN scoped_rules' :
     /\ scoped_rules'[j].promoted_from = id
     /\ \A i \in DOMAIN scoped_rules : scoped_rules[i].rule_id # scoped_rules'[j].rule_id}

\* C38: a hypothesis whose expires_at has passed, or whose
\* validation_interactions has reached 10, is never promoted to a rule by a
\* later signal: it is expired before any further validation can count.
C38_ExpiredNeverPromoted ==
  [][(calls' = calls + 1 /\ lastCall'.op = "evolve_scoped") =>
       \A i \in DOMAIN hypotheses :
         check_expiry(hypotheses[i], now) =>
           /\ PromotedNow(hypotheses[i].hypothesis_id) = {}
           /\ ArchivedAs(hypotheses[i].hypothesis_id, "promoted") = {}]_vars

\* what the call does with such a hypothesis: it is gone from the map when
\* the call returns, archived as promoted, rejected or expired
C38_ExpiredLeavesTheMap ==
  [][(calls' = calls + 1 /\ lastCall'.op = "evolve_scoped"
      /\ lastCall'.signals # <<>>) =>
       \A i \in DOMAIN hypotheses :
         check_expiry(hypotheses[i], now) =>
           /\ HypIndex(hypotheses', hypotheses[i].hypothesis_id) = 0
           /\ \E r \in {"promoted", "rejected", "expired"} :
                ArchivedAs(hypotheses[i].hypothesis_id, r) # {}]_vars

(***************************************************************************)
(* Actions: a rule learned from a signal without a scope keyword, facts   *)
(* of several scopes, and the prompts and queries that follow              *)
(***************************************************************************)
MaxGlobalCalls == 6

S_Tabs == Signal("PREFERENCE", T_Tabs, 80)
S_CorrectTabs == Signal("CORRECTION", T_Tabs, 80)

GlobalSignalLists == {<<S_Tabs>>, <<S_CorrectTabs>>, <<S_Async>>}

\* ScopedCompiler.scientific_evolve(signals), up to MaxGlobalCalls calls
ScientificEvolveLong(signals) ==
  /\ calls < MaxGlobalCalls
  /\ \E K \in {scientific_evolve(KernelState, signals)} :
        /\ SetKernel(K)
        /\ lastCall' = [op |-> "scientific_evolve", signals |-> signals,
                        report |-> K.report]
  /\ calls' = calls + 1
  /\ streak' = NoStreak
  /\ UNCHANGED <<now, outsideCompiler>>

\* the scope_path a caller gives a UserFact
FactScopes == {<<>>, <<"Python">>, <<"JavaScript">>}

GlobalContexts == Contexts \cup {<<"Global">>, <<>>}

NextGlobal ==
  \/ \E signals \in GlobalSignalLists : ScientificEvolveLong(signals)
  \/ \E user_query \in Queries : GenerateSystemPrompt(user_query)
  \/ \E ctx \in GlobalContexts : QueryScopedRules(ctx)
  \/ \E scope_path \in FactScopes :
        calls < MaxPromptSetup /\ AddFact("User types fast", scope_path)

SpecGlobal == Init /\ [][NextGlobal]_vars

\* the rules of the kernel that were learned from a signal holding no
\* keyword of the language, framework and domain tables and are ESTABLISHED
EstablishedKeywordFree ==
  {i \in DOMAIN scoped_rules :
     /\ KeywordsIn(scoped_rules[i].content) = {}
     /\ scoped_rules[i].state = "ESTABLISHED"}

\* C39: a rule learned from a signal that contains no scope keyword is
\* global: once ESTABLISHED it is injected by generate_system_prompt for every
\* query and returned by query_scoped_rules for every active context,
\* whatever their scope.
C39_KeywordFreeRuleIsGlobal ==
  [][/\ (lastCall'.op = "generate_system_prompt" /\ scoped_rules' = scoped_rules) =>
          \A i \in EstablishedKeywordFree :
            \E n \in 1..Len(RuleLinesOf(lastCall'.result)) :
              RuleLinesOf(lastCall'.result)[n] = RuleLine(scoped_rules[i])
     /\ (lastCall'.op = "query_scoped_rules" /\ scoped_rules' = scoped_rules) =>
          \A i \in EstablishedKeywordFree :
            \E n \in 1..Len(lastCall'.result) :
              lastCall'.result[n].rule_id = scoped_rules[i].rule_id]_vars

\* what the code does with such a rule: its scope_path is the one-element
\* path ["Global"], so it is injected and returned exactly for the queries
\* and contexts whose scope starts with "Global" (queries that hold no
\* scope keyword themselves)
C39_KeywordFreeRuleIsScopedGlobal ==
  [][/\ \A i \in DOMAIN scoped_rules' :
          KeywordsIn(scoped_rules'[i].content) = {}
            => scoped_rules'[i].scope_path = <<"Global">>
     /\ (lastCall'.op = "generate_system_prompt" /\ scoped_rules' = scoped_rules) =>
          \A i \in EstablishedKeywordFree :
            (\E n \in 1..Len(RuleLinesOf(lastCall'.result)) :
               RuleLinesOf(lastCall'.result)[n] = RuleLine(scoped_rules[i]))
              <=> IsPrefixOf(<<"Global">>, DetectedScope(lastCall'.user_query))
     /\ (lastCall'.op = "query_scoped_rules" /\ scoped_rules' = scoped_rules) =>
          \A i \in EstablishedKeywordFree :
            (\E n \in 1..Len(lastCall'.result) :
               lastCall'.result[n].rule_id = scoped_rules[i].rule_id)
              <=> IsPrefixOf(<<"Global">>, lastCall'.active_context)]_vars

(***************************************************************************)
(* Facts in the prompt (checked under SpecGlobal)                          *)
(***************************************************************************)
\* the lines of a prompt between its "## PREFERENCES" header and the empty
\* line that ends the block
FactLinesOf(lines) ==
  LET hs == {h \in 1..Len(lines) :
               lines[h] = "## PREFERENCES (Follow unless conflicts with Laws)"}
  IN  IF hs = {} THEN <<>>
      ELSE LET h == CHOOSE x \in hs : TRUE
               e == CHOOSE x \in (h + 1)..Len(lines) :
                      /\ lines[x] = ""
                      /\ \A y \in (h + 1)..(x - 1) : lines[y] # ""
           IN  SubSeq(lines, h + 1, e - 1)

\* the line of the prompt for a fact
FactLine(fact) == <<"- [", scope_str(fact.scope_path), "] ", fact.content>>

\* C40: generate_system_prompt never lists a fact whose scope_path is
\* non-empty and is not a prefix of the scope detected for the query.
C40_FactsOfTheScopeOnly ==
  [][(lastCall'.op = "generate_system_prompt" /\ facts' = facts) =>
       \A n \in 1..Len(FactLinesOf(lastCall'.result)) :
         \E i \in 1..Len(facts) :
           /\ FactLinesOf(lastCall'.result)[n] = FactLine(facts[i])
           /\ IsPrefixOf(facts[i].scope_path, DetectedScope(lastCall'.user_query))]_vars

\* what the code lists: with no goal in the kernel and at most five facts,
\* every fact, whatever its scope_path and whatever the query
C40_EveryFactListed ==
  [][(/\ lastCall'.op = "generate_system_prompt"
      /\ facts' = facts
      /\ goals = <<>>
      /\ Len(facts) <= 5) =>
       \A i \in 1..Len(facts) :
         \E n \in 1..Len(FactLinesOf(lastCall'.result)) :
           FactLinesOf(lastCall'.result)[n] = FactLine(facts[i])]_vars

=============================================================================
